---------------------------- MODULE Spec2Model ----------------------------
(***************************************************************************)
(* A model of the bdf PDF reader: the byte predicates, the slice scanner,  *)
(* the tokenizer, the stack-driven object parser and the file reader       *)
(* (PdfFile).  Byte buffers are sequences of byte values (0..255); a Rust  *)
(* slice raw[k..] is Drop(raw, k).  Every fallible function returns one of *)
(*    Ok(v, rest)   the value and the remaining slice,                     *)
(*    Err(e)        an Error value,                                        *)
(*    Panic         the call aborts (out-of-range slice, usize underflow). *)
(***************************************************************************)
EXTENDS Integers, Sequences, FiniteSets, TLC

(***************************************************************************)
(* Bounds of the model.                                                    *)
(***************************************************************************)
\* longest run of free bytes in a tokenizer input
MaxLen == 3
\* most entries in one xref subsection of a generated file
MaxEntries == 2
\* most tokens before the terminator keyword in a parser input
MaxTokens == 3

(***************************************************************************)
(* Byte values used by name.                                               *)
(***************************************************************************)
HT == 9
LF == 10
FF == 12
CR == 13
SP == 32
\* U+FFFD, what from_utf8_lossy puts for a byte that is not valid UTF-8
REPLACEMENT_CHARACTER == 65533

PDF_HEADER == <<37, 80, 68, 70, 45>>
EOF_MARKER == <<37, 37, 69, 79, 70, 10>>
STARTXREF_KEYWORD == <<115, 116, 97, 114, 116, 120, 114, 101, 102>>
XREF_KEYWORD == <<120, 114, 101, 102>>
STREAM_KEYWORD == <<115, 116, 114, 101, 97, 109>>
ENDSTREAM_KEYWORD == <<101, 110, 100, 115, 116, 114, 101, 97, 109>>
TRAILER_KEYWORD == <<116, 114, 97, 105, 108, 101, 114>>
OBJ_KEYWORD == <<111, 98, 106>>
ENDOBJ_KEYWORD == <<101, 110, 100, 111, 98, 106>>
TRUE_KEYWORD == <<116, 114, 117, 101>>
FALSE_KEYWORD == <<102, 97, 108, 115, 101>>
NULL_KEYWORD == <<110, 117, 108, 108>>
R_KEYWORD == <<82>>
LINE_LENGTH == 20
U8_MAX == 255

WHITESPACE_CHARACTERS == {0, 9, 10, 12, 13, 32}
NEWLINE_CHARACTERS == {10, 13}
\* ( ) < > [ ] { } / %
DELIMETER_CHARACTERS == {40, 41, 60, 62, 91, 93, 123, 125, 47, 37}
\* + - .
NUMERIC_CHARACTERS == {43, 45, 46}

(***************************************************************************)
(* Results, errors, options and slices.                                    *)
(***************************************************************************)
Ok(v, rest) == [kind |-> "Ok", val |-> v, rest |-> rest]
Err(e) == [kind |-> "Err", err |-> e]
Panic == [kind |-> "Panic"]

IsOk(r) == r.kind = "Ok"
IsErr(r) == r.kind = "Err"
IsPanic(r) == r.kind = "Panic"

ErrEOF == [tag |-> "EOF"]
ErrSyntax(msg) == [tag |-> "Syntax", msg |-> msg]
ErrParseInt == [tag |-> "ParseInt"]
ErrParseFloat == [tag |-> "ParseFloat"]
ErrNotLoaded(what) == [tag |-> "NotLoaded", what |-> what]
ErrObjectNotFound(reference) == [tag |-> "ObjectNotFound", ref |-> reference]

None == [some |-> FALSE]
Some(v) == [some |-> TRUE, val |-> v]

\* raw[k..], for k <= raw.len()
Drop(s, k) == SubSeq(s, k + 1, Len(s))
\* raw[..k], for k <= raw.len()
Take(s, k) == SubSeq(s, 1, k)
\* raw[a..b], for a <= b <= raw.len()
Slice(s, a, b) == SubSeq(s, a + 1, b)

starts_with(s, p) == Len(p) <= Len(s) /\ Take(s, Len(p)) = p
ends_with(s, p) == Len(p) <= Len(s) /\ Drop(s, Len(s) - Len(p)) = p

\* String::from_utf8_lossy on the bytes the model uses: an ASCII byte is
\* its own character, a byte from 0xF8 up is never valid UTF-8 and becomes
\* U+FFFD.  (The model's inputs hold no bytes in 0x80..0xF7.)
from_utf8_lossy(s) ==
  [i \in 1..Len(s) |-> IF s[i] < 128 THEN s[i] ELSE REPLACEMENT_CHARACTER]

\* Error::Syntax(msg, String::from_utf8_lossy(&raw[..5]).into()): building
\* the snippet slices the first five bytes and aborts when there are fewer.
SyntaxWithSnippet(msg, raw) ==
  IF Len(raw) < 5 THEN Panic ELSE Err(ErrSyntax(msg))

(***************************************************************************)
(* chars.rs                                                                *)
(***************************************************************************)
is_whitespace_char(c) == c \in WHITESPACE_CHARACTERS
is_newline_char(c) == c \in NEWLINE_CHARACTERS
is_alphabetic_char(c) == (97 <= c /\ c <= 122) \/ (65 <= c /\ c <= 90)
is_name_char(c) == c \notin DELIMETER_CHARACTERS /\ ~is_whitespace_char(c)
is_numeric_char(c) == c \in NUMERIC_CHARACTERS \/ (48 <= c /\ c <= 57)

\* The bytes of each class, for the loops that count a run of them.
AlphabeticChars == {c \in 0..U8_MAX : is_alphabetic_char(c)}
NameChars == {c \in 0..U8_MAX : is_name_char(c)}
NumericChars == {c \in 0..U8_MAX : is_numeric_char(c)}

(***************************************************************************)
(* slice_utils.rs                                                          *)
(***************************************************************************)
\* for i in 0..buf.len() - len: the subtraction is on usize, so a needle
\* longer than the buffer aborts (overflow check, or the slice buf[i..i+len]
\* out of range when the subtraction wraps).
position_of_sequence(buf, seq) ==
  IF Len(seq) > Len(buf) THEN Panic
  ELSE LET hits == {i \in 0..(Len(buf) - Len(seq) - 1) :
                      Slice(buf, i, i + Len(seq)) = seq}
       IN IF hits = {} THEN Ok(None, <<>>)
          ELSE Ok(Some(CHOOSE i \in hits : \A j \in hits : i <= j), <<>>)

\* for i in (0..buf.len() - len).rev()
last_position_of_sequence(buf, seq) ==
  IF Len(seq) > Len(buf) THEN Panic
  ELSE LET hits == {i \in 0..(Len(buf) - Len(seq) - 1) :
                      Slice(buf, i, i + Len(seq)) = seq}
       IN IF hits = {} THEN Ok(None, <<>>)
          ELSE Ok(Some(CHOOSE i \in hits : \A j \in hits : i >= j), <<>>)

(***************************************************************************)
(* Number parsing of the Rust standard library, as the tokenizer uses it.  *)
(***************************************************************************)
IsDigit(c) == 48 <= c /\ c <= 57
IsOctalDigit(c) == 48 <= c /\ c <= 55
IsHexDigit(c) == IsDigit(c) \/ (97 <= c /\ c <= 102) \/ (65 <= c /\ c <= 70)

\* char::to_digit with the bug of reading every letter digit as upper case.
DigitValueUpperCase(c) ==
  IF IsDigit(c) THEN c - 48 ELSE c - 55

\* char::to_digit
DigitValue(c) ==
  IF IsDigit(c) THEN c - 48
  ELSE IF 97 <= c /\ c <= 102 THEN c - 87
  ELSE c - 55

IsRadixDigit(c, radix) == IsHexDigit(c) /\ DigitValue(c) < radix

RECURSIVE RadixValue(_, _)
RadixValue(s, radix) ==
  IF s = <<>> THEN 0
  ELSE RadixValue(Take(s, Len(s) - 1), radix) * radix + DigitValue(s[Len(s)])

\* <unsigned>::from_str_radix(s, radix) with the type's greatest value max:
\* an optional leading '+' (never '-'), then at least one digit.
from_str_radix(s, radix, max) ==
  LET digits == IF s # <<>> /\ s[1] = 43 THEN Drop(s, 1) ELSE s
  IN IF digits = <<>> THEN None
     ELSE IF \E i \in 1..Len(digits) : ~IsRadixDigit(digits[i], radix) THEN None
     ELSE IF RadixValue(digits, radix) > max THEN None
     ELSE Some(RadixValue(digits, radix))

U16_MAX == 65535
\* the greatest value the model's integers hold; stands for usize::MAX and
\* u32::MAX, which no number of the model's inputs reaches
USIZE_MAX == 2147483647

\* f64::from_str on a run of numeric characters (digits + - .): an optional
\* sign, digits with exactly one '.', at least one digit.  The value is
\* kept as sign, whole part and fraction digits without trailing zeros.
RECURSIVE StripTrailingZeros(_)
StripTrailingZeros(s) ==
  IF s # <<>> /\ s[Len(s)] = 48 THEN StripTrailingZeros(Take(s, Len(s) - 1))
  ELSE s

parse_f64(s) ==
  LET signed == s # <<>> /\ s[1] \in {43, 45}
      body == IF signed THEN Drop(s, 1) ELSE s
      dots == {i \in 1..Len(body) : body[i] = 46}
  IN IF Cardinality(dots) # 1 \/ Len(body) < 2
        \/ (\E i \in 1..Len(body) : body[i] # 46 /\ ~IsDigit(body[i]))
     THEN None
     ELSE LET d == CHOOSE i \in dots : TRUE
              whole == RadixValue(Take(body, d - 1), 10)
              frac == StripTrailingZeros(Drop(body, d))
          IN Some([neg |-> signed /\ s[1] = 45 /\ (whole # 0 \/ frac # <<>>),
                   whole |-> whole, frac |-> frac])

(***************************************************************************)
(* tokens.rs                                                               *)
(***************************************************************************)
IntegerToken(n) == [type |-> "Integer", int |-> n]
RealToken(x) == [type |-> "Real", real |-> x]
KeywordToken(k) == [type |-> "Keyword", bytes |-> k]
LiteralStringToken(b) == [type |-> "LiteralString", bytes |-> b]
HexadecimalStringToken(b) == [type |-> "HexadecimalString", bytes |-> b]
NameToken(b) == [type |-> "Name", bytes |-> b]
StreamToken(b) == [type |-> "Stream", bytes |-> b]
BeginArrayToken == [type |-> "BeginArray"]
EndArrayToken == [type |-> "EndArray"]
BeginDictionaryToken == [type |-> "BeginDictionary"]
EndDictionaryToken == [type |-> "EndDictionary"]

\* while !is_newline_char(peek_char(raw)?) { raw = &raw[1..]; }
RECURSIVE SkipComment(_)
SkipComment(raw) ==
  IF raw = <<>> THEN Err(ErrEOF)
  ELSE IF is_newline_char(raw[1]) THEN Ok(<<>>, raw)
  ELSE SkipComment(Drop(raw, 1))

\* parse_whitespace with the bug of not taking `%` as the start of a comment.
RECURSIVE parse_whitespace_without_comments(_)
parse_whitespace_without_comments(raw) ==
  IF raw = <<>> THEN Err(ErrEOF)
  ELSE IF is_whitespace_char(raw[1])
    THEN parse_whitespace_without_comments(Drop(raw, 1))
  ELSE Ok(<<>>, raw)

RECURSIVE parse_whitespace(_)
parse_whitespace(raw) ==
  IF raw = <<>> THEN Err(ErrEOF)
  ELSE IF is_whitespace_char(raw[1]) THEN parse_whitespace(Drop(raw, 1))
  ELSE IF raw[1] = 37
    THEN LET AfterComment(c) ==
               IF IsOk(c) THEN parse_whitespace(c.rest) ELSE c
         IN AfterComment(SkipComment(raw))
  ELSE Ok(<<>>, raw)

\* The length of the run of bytes satisfying the class at the start of raw,
\* as the loops `while is_x_char(peek_char(&raw[length..])?)` count it;
\* None when the run reaches the end of the buffer (peek_char fails).
RunLength(raw, class) ==
  LET stops == {i \in 1..Len(raw) : raw[i] \notin class}
  IN IF stops = {} THEN None
     ELSE Some((CHOOSE i \in stops : \A j \in stops : i <= j) - 1)

parse_number(raw, max) ==
  LET Parsed(number, rest) ==
        IF ~number.some THEN Err(ErrParseInt) ELSE Ok(number.val, rest)
      Digits(rest, run) ==
        IF ~run.some THEN Err(ErrEOF)
        ELSE Parsed(from_str_radix(Take(rest, run.val), 10, max),
                    Drop(rest, run.val))
      AfterWhitespace(w) ==
        IF ~IsOk(w) THEN w
        ELSE Digits(w.rest, RunLength(w.rest, NumericChars))
  IN AfterWhitespace(parse_whitespace(raw))

\* parse_keyword with the bug of returning raw where it should return
\* &raw[length..]: the keyword is read but not consumed.
parse_keyword_without_advance(raw) ==
  LET Keyword(run) ==
        IF ~run.some THEN Err(ErrEOF) ELSE Ok(Take(raw, run.val), raw)
  IN Keyword(RunLength(raw, AlphabeticChars))

parse_keyword(raw) ==
  LET Keyword(run) ==
        IF ~run.some THEN Err(ErrEOF)
        ELSE Ok(Take(raw, run.val), Drop(raw, run.val))
  IN Keyword(RunLength(raw, AlphabeticChars))

parse_numeric(raw) ==
  LET Real(number, rest) ==
        IF ~number.some THEN Err(ErrParseFloat)
        ELSE Ok(RealToken(number.val), rest)
      Integer(number, rest) ==
        IF ~number.some THEN Err(ErrParseInt)
        ELSE Ok(IntegerToken(number.val), rest)
      Numeric(text, rest) ==
        LET contains_decimal == \E i \in 1..Len(text) : text[i] = 46
        IN IF contains_decimal THEN Real(parse_f64(text), rest)
           ELSE Integer(from_str_radix(text, 10, USIZE_MAX), rest)
      Run(run) ==
        IF ~run.some THEN Err(ErrEOF)
        ELSE Numeric(Take(raw, run.val), Drop(raw, run.val))
  IN Run(RunLength(raw, NumericChars))

\* The value is Some(byte) or None (a line continuation).
parse_escape_sequence(raw) ==
  IF raw = <<>> THEN Err(ErrEOF)
  ELSE IF raw[1] # 92
    THEN SyntaxWithSnippet("Escape Sequence must start with a '\\'", raw)
  ELSE
    LET Octal(byte, rest) ==
          IF ~byte.some THEN Err(ErrParseInt) ELSE Ok(Some(byte.val), rest)
        Digits(digit_count) ==
          Octal(from_str_radix(Slice(raw, 1, 1 + digit_count), 8, U8_MAX),
                Drop(raw, 1 + digit_count))
        Position(non_octal) ==
          IF non_octal = {} THEN None
          ELSE Some((CHOOSE i \in non_octal : \A j \in non_octal : i <= j) - 1)
        Window(window) ==
          Position({i \in 1..Len(window) : ~IsOctalDigit(window[i])})
        Escape(first_non_octal_position) ==
          IF ~(first_non_octal_position.some
               /\ first_non_octal_position.val = 0)
            THEN Digits(IF first_non_octal_position.some
                        THEN first_non_octal_position.val
                        ELSE IF Len(raw) - 1 < 3 THEN Len(raw) - 1 ELSE 3)
          ELSE
            LET c == raw[2]
            IN CASE c = 110 -> Ok(Some(LF), Drop(raw, 2))
                 [] c = 114 -> Ok(Some(LF), Drop(raw, 2))
                 [] c = 116 -> Ok(Some(HT), Drop(raw, 2))
                 [] c = 98 -> Ok(Some(8), Drop(raw, 2))
                 [] c = 102 -> Ok(Some(FF), Drop(raw, 2))
                 [] c \in {40, 41, 92} -> Ok(Some(c), Drop(raw, 2))
                 [] c = LF -> Ok(None, Drop(raw, 2))
                 [] c = CR -> Ok(Some(LF),
                                 Drop(raw, IF Len(raw) >= 3 /\ raw[3] = LF
                                           THEN 3 ELSE 2))
                 [] OTHER -> SyntaxWithSnippet("Invalid escape sequence", raw)
    IN Escape(Window(Slice(raw, 1, IF Len(raw) < 4 THEN Len(raw) ELSE 4)))

\* The scan for the closing parenthesis: Ok(<<length, extra>>), Err(EOF) when
\* the buffer ends first, Panic when length has passed the end of the buffer
\* (a backslash was its last byte) and &raw[length..] is sliced.
RECURSIVE ScanLiteralString(_, _, _, _)
ScanLiteralString(raw, length, depth, extra) ==
  IF depth <= 0 THEN Ok(<<length, extra>>, <<>>)
  ELSE IF length > Len(raw) THEN Panic
  ELSE IF length = Len(raw) THEN Err(ErrEOF)
  ELSE LET c == raw[length + 1]
       IN CASE c = 40 -> ScanLiteralString(raw, length + 1, depth + 1, extra)
            [] c = 41 -> ScanLiteralString(raw, length + 1, depth - 1, extra)
            [] c = 92 -> ScanLiteralString(raw, length + 2, depth, TRUE)
            [] c = CR -> ScanLiteralString(raw, length + 1, depth, TRUE)
            [] OTHER -> ScanLiteralString(raw, length + 1, depth, extra)

\* The decoding loop over the string's content.
RECURSIVE DecodeLiteralString(_, _)
DecodeLiteralString(raw, bytes) ==
  IF raw = <<>> THEN Ok(bytes, <<>>)
  ELSE IF raw[1] = 92
    THEN LET Escaped(e) ==
               IF ~IsOk(e) THEN e
               ELSE DecodeLiteralString(e.rest,
                      IF e.val.some THEN Append(bytes, e.val.val) ELSE bytes)
         IN Escaped(parse_escape_sequence(raw))
  ELSE IF raw[1] = CR
    THEN DecodeLiteralString(
           Drop(raw, IF Len(raw) >= 2 /\ raw[2] = LF THEN 2 ELSE 1),
           Append(bytes, LF))
  ELSE DecodeLiteralString(Drop(raw, 1), Append(bytes, raw[1]))

parse_literal_string(raw) ==
  IF raw[1] # 40
  THEN SyntaxWithSnippet("Literal String must start with '('", raw)
  ELSE LET Decoded(string, rest) ==
             IF ~IsOk(string) THEN string ELSE Ok(string.val, rest)
           Content(content, requires_extra_processing, rest) ==
             IF requires_extra_processing
             THEN Decoded(DecodeLiteralString(content, <<>>), rest)
             ELSE Ok(content, rest)
           Scanned(scan) ==
             IF ~IsOk(scan) THEN scan
             ELSE LET length == scan.val[1]
                  IN Content(Slice(raw, 1, length - 1), scan.val[2],
                             Drop(raw, length))
       IN Scanned(ScanLiteralString(raw, 1, 1, FALSE))

\* The loop over the digits between '<' and '>'; last is the pending high
\* nibble.  Ok(<<bytes, last>>).
RECURSIVE DecodeHexadecimalString(_, _, _)
DecodeHexadecimalString(hex, last, bytes) ==
  IF hex = <<>> THEN Ok(<<bytes, last>>, <<>>)
  ELSE LET Pair(byte, rest) ==
             IF ~byte.some THEN Err(ErrParseInt)
             ELSE DecodeHexadecimalString(rest, None, Append(bytes, byte.val))
           Digit(c, rest) ==
             IF ~last.some THEN DecodeHexadecimalString(rest, Some(c), bytes)
             ELSE Pair(from_str_radix(<<last.val, c>>, 16, U8_MAX), rest)
           AfterWhitespace(w) ==
             IF ~IsOk(w) THEN w ELSE Digit(w.rest[1], Drop(w.rest, 1))
       IN AfterWhitespace(parse_whitespace(hex))

parse_hexadecimal_string(raw) ==
  IF raw[1] # 60
  THEN SyntaxWithSnippet("Hexadecimal String must start with '<'", raw)
  ELSE LET closes == {i \in 1..Len(raw) : raw[i] = 62}
       IN IF closes = {}
          THEN SyntaxWithSnippet("Hexadecimal String must end with '>'", raw)
          ELSE LET Last(bytes, byte, rest) ==
                     IF ~byte.some THEN Err(ErrParseInt)
                     ELSE Ok(Append(bytes, byte.val), rest)
                   Decoded(d, rest) ==
                     IF ~IsOk(d) THEN d
                     ELSE IF d.val[2].some
                     THEN Last(d.val[1],
                               from_str_radix(<<d.val[2].val, 48>>, 16, U8_MAX),
                               rest)
                     ELSE Ok(d.val[1], rest)
                   Length(length) ==
                     Decoded(DecodeHexadecimalString(Slice(raw, 1, length - 1),
                                                     None, <<>>),
                             Drop(raw, length))
               IN Length(CHOOSE i \in closes : \A j \in closes : i <= j)

\* The loop `while i < length` over the name's bytes; raw is the whole
\* remaining buffer after the '/', so raw[i + 1..i + 3] may reach past the
\* name and aborts when it reaches past the buffer.
RECURSIVE DecodeName(_, _, _, _)
DecodeName(raw, length, i, bytes) ==
  IF i >= length THEN Ok(bytes, <<>>)
  ELSE IF raw[i + 1] = 35
    THEN IF i + 3 > Len(raw) THEN Panic
         ELSE LET Escaped(byte) ==
                    IF ~byte.some THEN Err(ErrParseInt)
                    ELSE DecodeName(raw, length, i + 3, Append(bytes, byte.val))
              IN Escaped(from_str_radix(Slice(raw, i + 1, i + 3), 16, U8_MAX))
  ELSE DecodeName(raw, length, i + 1, Append(bytes, raw[i + 1]))

parse_name(raw) ==
  IF raw = <<>> THEN Err(ErrEOF)
  ELSE IF raw[1] # 47 THEN SyntaxWithSnippet("Name must start with a '/'", raw)
  ELSE LET Decoded(name, rest) ==
             IF ~IsOk(name) THEN name ELSE Ok(name.val, rest)
           Name(rest, run) ==
             IF ~run.some THEN Err(ErrEOF)
             ELSE LET length == run.val
                      contains_escapes == \E i \in 1..length : rest[i] = 35
                  IN IF contains_escapes
                     THEN Decoded(DecodeName(rest, length, 0, <<>>),
                                  Drop(rest, length))
                     ELSE Ok(Take(rest, length), Drop(rest, length))
           AfterSolidus(rest) == Name(rest, RunLength(rest, NameChars))
       IN AfterSolidus(Drop(raw, 1))

\* The remaining buffer after the EOL that follows the `stream` keyword.
StreamEol(raw) ==
  IF raw = <<>> THEN Err(ErrEOF)
  ELSE IF raw[1] = LF THEN Ok(<<>>, Drop(raw, 1))
  ELSE IF raw[1] = CR
    THEN IF Len(raw) < 2 THEN Err(ErrEOF)
         ELSE IF raw[2] = LF THEN Ok(<<>>, Drop(raw, 2))
         ELSE SyntaxWithSnippet(
                "'stream' keyword must not be followed by just a CR", raw)
  ELSE SyntaxWithSnippet("'stream' keyword must be followed by an EOL", raw)

parse_to_end_of_stream(raw) ==
  LET Content(data, found) ==
        IF IsPanic(found) THEN Panic
        ELSE IF ~found.val.some THEN Err(ErrEOF)
        ELSE Ok(Take(data, found.val.val),
                Drop(data, found.val.val + Len(ENDSTREAM_KEYWORD)))
      AfterEol(eol) ==
        IF ~IsOk(eol) THEN eol
        ELSE Content(eol.rest, position_of_sequence(eol.rest, ENDSTREAM_KEYWORD))
  IN AfterEol(StreamEol(raw))

\* The dispatch of parse_token on the first byte after the whitespace.
TokenAt(raw) ==
  LET first_char == raw[1]
      Stream(stream) ==
        IF ~IsOk(stream) THEN stream
        ELSE Ok(StreamToken(stream.val), stream.rest)
      Keyword(k) ==
        IF ~IsOk(k) THEN k
        ELSE IF k.val = STREAM_KEYWORD THEN Stream(parse_to_end_of_stream(k.rest))
        ELSE Ok(KeywordToken(k.val), k.rest)
      Name(name) ==
        IF ~IsOk(name) THEN name ELSE Ok(NameToken(name.val), name.rest)
      Literal(string) ==
        IF ~IsOk(string) THEN string
        ELSE Ok(LiteralStringToken(string.val), string.rest)
      Hexadecimal(string) ==
        IF ~IsOk(string) THEN string
        ELSE Ok(HexadecimalStringToken(string.val), string.rest)
  IN IF is_numeric_char(first_char) THEN parse_numeric(raw)
     ELSE IF is_alphabetic_char(first_char) THEN Keyword(parse_keyword(raw))
     ELSE IF first_char = 47 THEN Name(parse_name(raw))
     ELSE IF first_char = 40 THEN Literal(parse_literal_string(raw))
     ELSE IF first_char = 60
       THEN IF Len(raw) < 2 THEN Err(ErrEOF)
            ELSE IF raw[2] = 60 THEN Ok(BeginDictionaryToken, Drop(raw, 2))
            ELSE Hexadecimal(parse_hexadecimal_string(raw))
     ELSE IF first_char = 62
       THEN IF Len(raw) < 2 THEN Err(ErrEOF)
            ELSE IF raw[2] = 62 THEN Ok(EndDictionaryToken, Drop(raw, 2))
            ELSE SyntaxWithSnippet("Expected a second '>'", raw)
     ELSE IF first_char = 91 THEN Ok(BeginArrayToken, Drop(raw, 1))
     ELSE IF first_char = 93 THEN Ok(EndArrayToken, Drop(raw, 1))
     ELSE SyntaxWithSnippet("Unrecognised token", raw)

parse_token(raw) ==
  LET AfterWhitespace(w) == IF ~IsOk(w) THEN w ELSE TokenAt(w.rest)
  IN AfterWhitespace(parse_whitespace(raw))

(***************************************************************************)
(* objects.rs: the Object sum type                                         *)
(***************************************************************************)
IndirectRef(number, generation) == [number |-> number, generation |-> generation]

BooleanObject(b) == [t |-> "Boolean", bool |-> b]
IntegerObject(i) == [t |-> "Integer", int |-> i]
RealObject(x) == [t |-> "Real", real |-> x]
StringObject(s) == [t |-> "String", bytes |-> s]
NameObject(n) == [t |-> "Name", bytes |-> n]
ArrayObject(items) == [t |-> "Array", items |-> items]
DictionaryObject(dict) == [t |-> "Dictionary", dict |-> dict]
StreamObject(dict, data) == [t |-> "Stream", dict |-> dict, data |-> data]
NullObject == [t |-> "Null"]
IndirectObject(ind) == [t |-> "Indirect", ref |-> ind]

\* impl Index<&[u8]> for Object: the entry of a dictionary, Null otherwise
ObjectIndex(object, index) ==
  IF object.t = "Dictionary" /\ index \in DOMAIN object.dict
  THEN object.dict[index]
  ELSE NullObject

\* Object::as_int: the integer, or a Syntax error for any other variant
as_int(object) ==
  IF object.t = "Integer" THEN Ok(object.int, <<>>)
  ELSE Err(ErrSyntax("Type mismatch"))

\* `number as u32` and `generation as u16`: the narrowing casts.  The
\* model's integers stay below 2^31, where the cast to u32 changes nothing.
AsU32(n) == n
AsU16(n) == n % (U16_MAX + 1)

(***************************************************************************)
(* parsing/objects.rs: the parse stack                                     *)
(***************************************************************************)
Obj(object) == [entry |-> "Obj", obj |-> object]
BeginArray == [entry |-> "BeginArray"]
BeginDictionary == [entry |-> "BeginDictionary"]

\* ParseStack::pop_obj on stack: Ok(object, the stack after the pop).  The
\* pop happens whatever the entry is, but an error ends the parse.
pop_obj(stack) ==
  IF stack # <<>> /\ stack[Len(stack)].entry = "Obj"
  THEN Ok(stack[Len(stack)].obj, Take(stack, Len(stack) - 1))
  ELSE Err(ErrSyntax("Could not pop argument"))

\* ParseStack::pop_back_to: Ok(the entries above the most recent
\* start_entry, the stack below it).
pop_back_to(stack, start_entry) ==
  LET marks == {i \in 1..Len(stack) : stack[i] = start_entry}
  IN IF marks = {} THEN Err(ErrSyntax("Could not find start of structure"))
     ELSE LET start == CHOOSE i \in marks : \A j \in marks : i >= j
          IN Ok(SubSeq(stack, start + 1, Len(stack)), Take(stack, start - 1))

\* process_array with the bug of collecting the entries from the top of the
\* stack down.
process_array_reversed(stack) ==
  LET Collect(popped) ==
        IF ~IsOk(popped) THEN popped
        ELSE IF \E i \in 1..Len(popped.val) : popped.val[i].entry # "Obj"
          THEN Err(ErrSyntax("Unrecognized token inside array"))
        ELSE Ok(<<>>, Append(popped.rest,
               Obj(ArrayObject([i \in 1..Len(popped.val) |->
                                  popped.val[Len(popped.val) + 1 - i].obj]))))
  IN Collect(pop_back_to(stack, BeginArray))

\* Each process_* gives Ok(<<>>, the new stack) or an error.
process_array(stack) ==
  LET Collect(popped) ==
        IF ~IsOk(popped) THEN popped
        ELSE IF \E i \in 1..Len(popped.val) : popped.val[i].entry # "Obj"
          THEN Err(ErrSyntax("Unrecognized token inside array"))
        ELSE Ok(<<>>, Append(popped.rest,
               Obj(ArrayObject([i \in 1..Len(popped.val) |-> popped.val[i].obj]))))
  IN Collect(pop_back_to(stack, BeginArray))

\* dict.insert(key, value)
DictInsert(dict, key, value) ==
  [k \in DOMAIN dict \cup {key} |-> IF k = key THEN value ELSE dict[k]]

\* The loop of process_dictionary with the bug of ending quietly at a key
\* that has no value after it.
RECURSIVE CollectDictionaryDroppingLastKey(_, _)
CollectDictionaryDroppingLastKey(entries, dict) ==
  IF entries = <<>> THEN Ok(dict, <<>>)
  ELSE IF ~(entries[1].entry = "Obj" /\ entries[1].obj.t = "Name")
    THEN Err(ErrSyntax("Misplaced token inside dictionary"))
  ELSE IF Len(entries) < 2 THEN Ok(dict, <<>>)
  ELSE IF entries[2].entry # "Obj"
    THEN Err(ErrSyntax("Could not find value in dictionary"))
  ELSE CollectDictionaryDroppingLastKey(Drop(entries, 2),
         DictInsert(dict, entries[1].obj.bytes, entries[2].obj))

\* The loop `while let Some(entry) = entries.next()` of process_dictionary.
RECURSIVE CollectDictionary(_, _)
CollectDictionary(entries, dict) ==
  IF entries = <<>> THEN Ok(dict, <<>>)
  ELSE IF ~(entries[1].entry = "Obj" /\ entries[1].obj.t = "Name")
    THEN Err(ErrSyntax("Misplaced token inside dictionary"))
  ELSE IF Len(entries) < 2 \/ entries[2].entry # "Obj"
    THEN Err(ErrSyntax("Could not find value in dictionary"))
  ELSE CollectDictionary(Drop(entries, 2),
         DictInsert(dict, entries[1].obj.bytes, entries[2].obj))

process_dictionary(stack) ==
  LET Collected(dict, rest) ==
        IF ~IsOk(dict) THEN dict
        ELSE Ok(<<>>, Append(rest, Obj(DictionaryObject(dict.val))))
      Collect(popped) ==
        IF ~IsOk(popped) THEN popped
        ELSE Collected(CollectDictionary(popped.val, <<>>), popped.rest)
  IN Collect(pop_back_to(stack, BeginDictionary))

\* process_indirect with the bug of taking the top of the stack as the number
\* and the entry below it as the generation.
process_indirect_swapped(stack) ==
  LET Number(number, generation, rest) ==
        IF ~IsOk(number) THEN number
        ELSE Ok(<<>>, Append(rest,
               Obj(IndirectObject(IndirectRef(AsU32(generation.val),
                                              AsU16(number.val))))))
      PoppedNumber(n, generation) ==
        IF ~IsOk(n) THEN n ELSE Number(as_int(n.val), generation, n.rest)
      Generation(generation, rest) ==
        IF ~IsOk(generation) THEN generation
        ELSE PoppedNumber(pop_obj(rest), generation)
      PoppedGeneration(g) ==
        IF ~IsOk(g) THEN g ELSE Generation(as_int(g.val), g.rest)
  IN PoppedGeneration(pop_obj(stack))

process_indirect(stack) ==
  LET Number(number, generation, rest) ==
        IF ~IsOk(number) THEN number
        ELSE Ok(<<>>, Append(rest,
               Obj(IndirectObject(IndirectRef(AsU32(number.val),
                                              AsU16(generation.val))))))
      PoppedNumber(n, generation) ==
        IF ~IsOk(n) THEN n ELSE Number(as_int(n.val), generation, n.rest)
      Generation(generation, rest) ==
        IF ~IsOk(generation) THEN generation
        ELSE PoppedNumber(pop_obj(rest), generation)
      PoppedGeneration(g) ==
        IF ~IsOk(g) THEN g ELSE Generation(as_int(g.val), g.rest)
  IN PoppedGeneration(pop_obj(stack))

(***************************************************************************)
(* parsing/objects.rs: process_indirect at the full width of usize.  A     *)
(* usize of a 64-bit build is kept as its four 16-bit limbs, the lowest    *)
(* first, so that values from 2^31 on can be written; the u32 number of    *)
(* the reference it gives is kept as its two limbs, the u16 generation as  *)
(* an integer.                                                             *)
(***************************************************************************)
\* process_indirect with a range check before each cast, as
\* u32::try_from(number) and u16::try_from(generation) would make.
process_indirect_checked(number, generation) ==
  IF number[3] # 0 \/ number[4] # 0
       \/ generation[2] # 0 \/ generation[3] # 0 \/ generation[4] # 0
  THEN Err(ErrSyntax("Integer out of range"))
  ELSE Ok(IndirectRef(<<number[1], number[2]>>, generation[1]), <<>>)

\* IndirectRef { number: number as u32, generation: generation as u16 }:
\* each cast keeps the low bits and cannot fail.
process_indirect_usize(number, generation) ==
  Ok(IndirectRef(<<number[1], number[2]>>, generation[1]), <<>>)

FILTER_KEY == <<70, 105, 108, 116, 101, 114>>
FLATE_DECODE == <<70, 108, 97, 116, 101, 68, 101, 99, 111, 100, 101>>
ErrUnknownFilter(name) == [tag |-> "UnknownFilter", name |-> name]

\* Iterating over an Object: the elements of an Array, nothing for Null,
\* the object itself otherwise.
ObjectIter(object) ==
  IF object.t = "Array" THEN object.items
  ELSE IF object.t = "Null" THEN <<>>
  ELSE <<object>>

\* Object::as_name
as_name(object) ==
  IF object.t = "Name" THEN Ok(object.bytes, <<>>)
  ELSE Err(ErrSyntax("Type mismatch"))

\* inflate::inflate_bytes_zlib, an external decoder, kept abstract: a zlib
\* stream is its first header byte 0x78 followed by the payload, which the
\* model keeps uncompressed; any other input is rejected.
inflate_bytes_zlib(bytes) ==
  IF bytes # <<>> /\ bytes[1] = 120 THEN Some(Drop(bytes, 1)) ELSE None

\* The loop of process_stream with the bug of stopping after the first
\* filter.
ApplyFirstFilter(filters, stream) ==
  IF filters = <<>> THEN Ok(stream, <<>>)
  ELSE LET Inflated(inflated) ==
             IF ~inflated.some THEN Panic ELSE Ok(inflated.val, <<>>)
           Filter(name) ==
             IF ~IsOk(name) THEN name
             ELSE IF name.val = FLATE_DECODE
               THEN Inflated(inflate_bytes_zlib(stream))
             ELSE Err(ErrUnknownFilter(name.val))
       IN Filter(as_name(filters[1]))

\* The loop `for filter in &dict[b"Filter"]` of process_stream.
RECURSIVE ApplyFilters(_, _)
ApplyFilters(filters, stream) ==
  IF filters = <<>> THEN Ok(stream, <<>>)
  ELSE LET Inflated(inflated) ==
             IF ~inflated.some THEN Panic
             ELSE ApplyFilters(Drop(filters, 1), inflated.val)
           Filter(name) ==
             IF ~IsOk(name) THEN name
             ELSE IF name.val = FLATE_DECODE
               THEN Inflated(inflate_bytes_zlib(stream))
             ELSE Err(ErrUnknownFilter(name.val))
       IN Filter(as_name(filters[1]))

process_stream(stack, stream) ==
  LET Decoded(decoded, dict, rest) ==
        IF ~IsOk(decoded) THEN decoded
        ELSE Ok(<<>>, Append(rest, Obj(StreamObject(dict, decoded.val))))
      Popped(dict) ==
        IF ~IsOk(dict) THEN dict
        ELSE Decoded(ApplyFilters(ObjectIter(ObjectIndex(dict.val, FILTER_KEY)),
                                  stream),
                     dict.val, dict.rest)
  IN Popped(pop_obj(stack))

(***************************************************************************)
(* parsing/objects.rs: parse and parse_object_until_keyword                *)
(*                                                                         *)
(* A parser state holds the locals of parse_object_until_keyword and of    *)
(* the loop of parse: the remaining bytes, the stack, the envelope         *)
(* identity recorded by the obj handler, the object taken by the end       *)
(* handler, the loop flag, and the error (or abort) that ended the loop.   *)
(***************************************************************************)
ParserStart(raw) ==
  [raw |-> raw, stack |-> <<>>, indirect |-> None, object |-> None,
   running |-> TRUE, failure |-> None]

Fail(st, result) == [st EXCEPT !.running = FALSE, !.failure = Some(result)]

\* obj_handler: process_indirect, then pop the reference it pushed
obj_handler(st) ==
  LET Popped(ind) ==
        [st EXCEPT !.stack = ind.rest, !.indirect = Some(ind.val.ref)]
      Indirect(r) == IF ~IsOk(r) THEN Fail(st, r) ELSE Popped(pop_obj(r.rest))
  IN Indirect(process_indirect(st.stack))

\* end_handler: pop the object and stop the loop
end_handler(st) ==
  LET Popped(o) ==
        IF ~IsOk(o) THEN Fail(st, o)
        ELSE [st EXCEPT !.stack = o.rest, !.object = Some(o.val),
                        !.running = FALSE]
  IN Popped(pop_obj(st.stack))

Push(st, entry) == [st EXCEPT !.stack = Append(st.stack, entry)]

\* The stack after a process_* call, or the failure it returned.
Processed(st, r) == IF ~IsOk(r) THEN Fail(st, r) ELSE [st EXCEPT !.stack = r.rest]

\* The match on the token, for a parser state whose raw is already the rest.
Dispatch(st, token, end_keyword) ==
  CASE token.type = "Keyword" /\ token.bytes = OBJ_KEYWORD -> obj_handler(st)
    [] token.type = "Keyword" /\ token.bytes # OBJ_KEYWORD
         /\ token.bytes = end_keyword -> end_handler(st)
    [] token.type = "Keyword" /\ token.bytes \notin {OBJ_KEYWORD, end_keyword} ->
         IF token.bytes = TRUE_KEYWORD THEN Push(st, Obj(BooleanObject(TRUE)))
         ELSE IF token.bytes = FALSE_KEYWORD THEN Push(st, Obj(BooleanObject(FALSE)))
         ELSE IF token.bytes = NULL_KEYWORD THEN Push(st, Obj(NullObject))
         ELSE IF token.bytes = R_KEYWORD
           THEN Processed(st, process_indirect(st.stack))
         ELSE Fail(st, Err(ErrSyntax("Unrecognized keyword")))
    [] token.type = "Integer" -> Push(st, Obj(IntegerObject(token.int)))
    [] token.type = "Real" -> Push(st, Obj(RealObject(token.real)))
    [] token.type = "LiteralString" -> Push(st, Obj(StringObject(token.bytes)))
    [] token.type = "HexadecimalString" -> Push(st, Obj(StringObject(token.bytes)))
    [] token.type = "Name" -> Push(st, Obj(NameObject(token.bytes)))
    [] token.type = "BeginArray" -> Push(st, BeginArray)
    [] token.type = "EndArray" -> Processed(st, process_array(st.stack))
    [] token.type = "BeginDictionary" -> Push(st, BeginDictionary)
    [] token.type = "EndDictionary" -> Processed(st, process_dictionary(st.stack))
    [] token.type = "Stream" -> Processed(st, process_stream(st.stack, token.bytes))

\* One turn of the loop `while running` of parse.
ParseIteration(st, end_keyword) ==
  LET Token(t) ==
        IF ~IsOk(t) THEN Fail(st, t)
        ELSE Dispatch([st EXCEPT !.raw = t.rest], t.val, end_keyword)
  IN Token(parse_token(st.raw))

RECURSIVE parse(_, _)
parse(st, end_keyword) ==
  IF ~st.running THEN st ELSE parse(ParseIteration(st, end_keyword), end_keyword)

\* What parse_object_until_keyword returns once the loop of parse has ended
\* in parser state st: Ok(<<indirect, object>>, raw) or the failure.
ParseOutcome(st) ==
  IF st.failure.some THEN st.failure.val
  ELSE IF ~st.object.some THEN Err(ErrSyntax("Did not encounter end keyword"))
  ELSE Ok(<<st.indirect, st.object.val>>, st.raw)

parse_object_until_keyword(raw, end_keyword) ==
  ParseOutcome(parse(ParserStart(raw), end_keyword))

(***************************************************************************)
(* parsing/pdf_file.rs: PdfFile                                            *)
(*                                                                         *)
(* The reader's fields are raw and xref_table; xref_table is None or       *)
(* Some(map), the map a function from IndirectRef to None (a free entry)   *)
(* or Some(offset).  Each method is an operator of the fields.             *)
(***************************************************************************)
version(buf) ==
  IF ~starts_with(buf, PDF_HEADER)
  THEN Err(ErrSyntax("Could not find pdf header"))
  ELSE LET newlines == {i \in 1..Len(buf) : buf[i] = LF}
       IN IF newlines = {}
          THEN Err(ErrSyntax("Could not find end of first line"))
          ELSE LET end_index == (CHOOSE i \in newlines : \A j \in newlines : i <= j) - 1
               IN Ok(from_utf8_lossy(Slice(buf, Len(PDF_HEADER), end_index)), <<>>)

last_xref_offset(buf) ==
  IF ~ends_with(buf, EOF_MARKER)
  THEN Err(ErrSyntax("Could not find eof marker"))
  ELSE LET Number(number) ==
             IF ~IsOk(number) THEN number ELSE Ok(number.val, <<>>)
           Keyword(k) ==
             IF ~IsOk(k) THEN k
             ELSE IF k.val # STARTXREF_KEYWORD
               THEN Err(ErrSyntax("Could not read startxref keyword"))
             ELSE Number(parse_number(k.rest, USIZE_MAX))
           Found(found) ==
             IF IsPanic(found) THEN Panic
             ELSE IF ~found.val.some
               THEN Err(ErrSyntax("Could not find startxref keyword"))
             ELSE Keyword(parse_keyword(Drop(buf, found.val.val)))
       IN Found(last_position_of_sequence(buf, STARTXREF_KEYWORD))

\* The key with the bug of counting the entries of a subsection from one.
XrefKeyFromOne(first_object_number, i, generation) ==
  IndirectRef(first_object_number + i + 1, generation)

\* let number = first_object_number + i; ... IndirectRef { number, generation }
XrefKey(first_object_number, i, generation) ==
  IndirectRef(first_object_number + i, generation)

\* if in_use { Some(object_offset) } else { None }
XrefEntry(in_use, object_offset) ==
  IF in_use THEN Some(object_offset) ELSE None

\* The body of the loop `for i in 0..length` of load_xref_table, from entry
\* i on: Ok(the filled table), an error or an abort.
RECURSIVE ReadXrefLines(_, _, _, _, _)
ReadXrefLines(lines, first_object_number, length, i, table) ==
  IF i >= length THEN Ok(table, <<>>)
  ELSE
    LET line_offset == LINE_LENGTH * i
    IN IF line_offset + LINE_LENGTH > Len(lines) THEN Panic
       ELSE
         LET Entry(object_offset, generation, in_use) ==
               IF ~object_offset.some \/ ~generation.some THEN Err(ErrParseInt)
               ELSE ReadXrefLines(lines, first_object_number, length, i + 1,
                      DictInsert(table,
                                 XrefKey(first_object_number, i, generation.val),
                                 XrefEntry(in_use, object_offset.val)))
             Line(line) ==
               Entry(from_str_radix(from_utf8_lossy(Slice(line, 0, 10)),
                                    10, USIZE_MAX),
                     from_str_radix(from_utf8_lossy(Slice(line, 11, 16)),
                                    10, U16_MAX),
                     line[18] = 110)
         IN Line(Slice(lines, line_offset, line_offset + LINE_LENGTH))

\* load_xref_table on a reader whose table is still None: Ok(the table).
ReadXrefTable(buf) ==
  LET Lines(w, first_object_number, length) ==
        IF ~IsOk(w) THEN w
        ELSE ReadXrefLines(w.rest, first_object_number, length, 0, <<>>)
      Length(length, first_object_number) ==
        IF ~IsOk(length) THEN length
        ELSE Lines(parse_whitespace(length.rest), first_object_number,
                   length.val)
      First(first_object_number) ==
        IF ~IsOk(first_object_number) THEN first_object_number
        ELSE Length(parse_number(first_object_number.rest, USIZE_MAX),
                    first_object_number.val)
      Keyword(k) ==
        IF ~IsOk(k) THEN k
        ELSE IF k.val # XREF_KEYWORD
          THEN Err(ErrSyntax("Could not find xref keyword"))
        ELSE First(parse_number(k.rest, USIZE_MAX))
      Offset(xref_offset) ==
        IF ~IsOk(xref_offset) THEN xref_offset
        ELSE IF xref_offset.val > Len(buf) THEN Panic
        ELSE Keyword(parse_keyword(Drop(buf, xref_offset.val)))
  IN Offset(last_xref_offset(buf))

\* load_xref_table with the bug of assigning the new, still empty HashMap
\* to self.xref_table before the test that returns early.
load_xref_table_clearing(buf, table) ==
  IF table.some THEN <<Ok(<<>>, <<>>), Some(<<>>)>>
  ELSE LET Read(read) ==
             IF ~IsOk(read) THEN <<read, table>>
             ELSE <<Ok(<<>>, <<>>), Some(read.val)>>
       IN Read(ReadXrefTable(buf))

\* load_xref_table with the bug of assigning the new HashMap to
\* self.xref_table before the entries are read into it.
load_xref_table_storing_first(buf, table) ==
  IF table.some THEN <<Ok(<<>>, <<>>), table>>
  ELSE LET Read(read) ==
             IF ~IsOk(read) THEN <<read, Some(<<>>)>>
             ELSE <<Ok(<<>>, <<>>), Some(read.val)>>
       IN Read(ReadXrefTable(buf))

\* load_xref_table: <<what it returns, the reader's xref_table afterwards>>
load_xref_table(buf, table) ==
  IF table.some THEN <<Ok(<<>>, <<>>), table>>
  ELSE LET Read(read) ==
             IF ~IsOk(read) THEN <<read, table>>
             ELSE <<Ok(<<>>, <<>>), Some(read.val)>>
       IN Read(ReadXrefTable(buf))

\* indirect_object_offset with the bug of reading an unloaded table as an
\* empty one (unwrap_or_default in place of ok_or(NotLoaded)).
indirect_object_offset_default_table(table, reference) ==
  IF ~table.some THEN Err(ErrObjectNotFound(reference))
  ELSE IF reference \notin DOMAIN table.val
    THEN Err(ErrObjectNotFound(reference))
  ELSE IF ~table.val[reference].some
    THEN Err(ErrObjectNotFound(reference))
  ELSE Ok(table.val[reference].val, <<>>)

\* indirect_object_offset with the bug of reporting a key that is missing
\* from the table with the error of the line above, NotLoaded.
indirect_object_offset_missing_not_loaded(table, reference) ==
  IF ~table.some THEN Err(ErrNotLoaded("xref_table"))
  ELSE IF reference \notin DOMAIN table.val
    THEN Err(ErrNotLoaded("xref_table"))
  ELSE IF ~table.val[reference].some
    THEN Err(ErrObjectNotFound(reference))
  ELSE Ok(table.val[reference].val, <<>>)

indirect_object_offset(table, reference) ==
  IF ~table.some THEN Err(ErrNotLoaded("xref_table"))
  ELSE IF reference \notin DOMAIN table.val
    THEN Err(ErrObjectNotFound(reference))
  ELSE IF ~table.val[reference].some
    THEN Err(ErrObjectNotFound(reference))
  ELSE Ok(table.val[reference].val, <<>>)

\* trailer: <<what it returns, whether it called parse_object_until_keyword>>
trailer(buf) ==
  LET Parsed(parsed) ==
        IF ~IsOk(parsed) THEN parsed ELSE Ok(parsed.val[2], <<>>)
      Found(found) ==
        IF IsPanic(found) THEN <<Panic, FALSE>>
        ELSE IF ~found.val.some
          THEN <<Err(ErrSyntax("Could not find trailer keyword")), FALSE>>
        ELSE <<Parsed(parse_object_until_keyword(
                        Drop(buf, found.val.val + Len(TRAILER_KEYWORD)),
                        STARTXREF_KEYWORD)),
               TRUE>>
  IN Found(last_position_of_sequence(buf, TRAILER_KEYWORD))

\* The end of resolve with the bug of dropping the recorded identity
\* (`let ((_, obj), _raw) = ...`, as trailer does).
ResolveParsedUnchecked(parsed, reference) ==
  IF ~IsOk(parsed) THEN parsed ELSE Ok(parsed.val[2], <<>>)

\* The end of resolve, from the result of parse_object_until_keyword on:
\* the check of the envelope identity against the requested reference.
ResolveParsed(parsed, reference) ==
  IF ~IsOk(parsed) THEN parsed
  ELSE IF parsed.val[1].some
    THEN IF parsed.val[1].val # reference
         THEN Err(ErrSyntax("Object number and generation number do not match values in xref table"))
         ELSE Ok(parsed.val[2], <<>>)
  ELSE Err(ErrSyntax("Could not find obj prefix"))

\* resolve with the bug of looking up a reference it has just read from the
\* file as well.
resolve_following(buf, table, object) ==
  LET Step(o) ==
        LET Offset(offset) ==
              IF ~IsOk(offset) THEN offset
              ELSE IF offset.val > Len(buf) THEN Panic
              ELSE ResolveParsed(parse_object_until_keyword(Drop(buf, offset.val),
                                                            ENDOBJ_KEYWORD),
                                 o.ref)
        IN Offset(indirect_object_offset(table, o.ref))
      Again(first) ==
        IF IsOk(first) /\ first.val.t = "Indirect" THEN Step(first.val) ELSE first
  IN IF object.t # "Indirect" THEN <<Ok(object, <<>>), FALSE>>
     ELSE <<Again(Step(object)), IsOk(indirect_object_offset(table, object.ref))>>

\* resolve: <<what it returns, whether it called parse_object_until_keyword>>
resolve(buf, table, object) ==
  IF object.t # "Indirect" THEN <<Ok(object, <<>>), FALSE>>
  ELSE
    LET reference == object.ref
        Offset(offset) ==
          IF ~IsOk(offset) THEN <<offset, FALSE>>
          ELSE IF offset.val > Len(buf) THEN <<Panic, FALSE>>
          ELSE <<ResolveParsed(parse_object_until_keyword(Drop(buf, offset.val),
                                                          ENDOBJ_KEYWORD),
                               reference),
                 TRUE>>
    IN Offset(indirect_object_offset(table, reference))

(***************************************************************************)
(* The files the reader is opened on.  A layout describes a file in the    *)
(* classic form (header line, indirect objects, one xref section, trailer, *)
(* startxref, end marker); FileBytes renders it.  The layout is kept       *)
(* beside the reader so that what the reader finds can be compared with    *)
(* what was written.                                                       *)
(***************************************************************************)
RECURSIVE Concat(_)
Concat(parts) ==
  IF parts = <<>> THEN <<>> ELSE parts[1] \o Concat(Drop(parts, 1))

\* n in decimal, zero-padded to at least width digits
RECURSIVE Decimal(_, _)
Decimal(n, width) ==
  IF n < 10 /\ width <= 1 THEN <<48 + n>>
  ELSE Append(Decimal(n \div 10, width - 1), 48 + (n % 10))

\* "1 0 obj\n42\nendobj\n", or with `2 0 R` in place of `42`, and
\* "2 0 obj\n1 0 R\nendobj\n"
ObjectOneHead == <<49, 32, 48, 32>> \o OBJ_KEYWORD \o <<LF>>
ObjectOneBody(f) ==
  (IF f.one = "Indirect" THEN <<50, 32, 48, 32, 82>> ELSE <<52, 50>>)
    \o <<LF>> \o ENDOBJ_KEYWORD \o <<LF>>
ObjectTwo ==
  <<50, 32, 48, 32>> \o OBJ_KEYWORD \o <<LF, 49, 32, 48, 32, 82, LF>>
    \o ENDOBJ_KEYWORD \o <<LF>>
ObjectBytes(f) == ObjectOneHead \o ObjectOneBody(f) \o ObjectTwo

\* "trailer\n<< /Size 3 >>\n", or with `42` or `[ 3 ]` in place of the
\* dictionary
TrailerBytes(f) ==
  TRAILER_KEYWORD \o <<LF>>
    \o (CASE f.trailer = "Dictionary" ->
               <<60, 60, 32, 47, 83, 105, 122, 101, 32, 51, 32, 62, 62>>
           [] f.trailer = "Integer" -> <<52, 50>>
           [] f.trailer = "Array" -> <<91, 32, 51, 32, 93>>)
    \o <<LF>>

HeaderBytes(f) == f.prefix \o f.version \o f.eol

\* Where an xref entry of the layout points: at the envelope of object 1 or
\* 2, at the body of object 1 (past its `1 0 obj`), at byte 0, or past the
\* end of the file.  An entry without an offset or without a generation has
\* the letter x in place of the digits of that field.
TargetOffset(f, target) ==
  CASE target = "obj1" -> Len(HeaderBytes(f))
    [] target = "obj2" -> Len(HeaderBytes(f)) + Len(ObjectOneHead) + Len(ObjectOneBody(f))
    [] target = "body1" -> Len(HeaderBytes(f)) + Len(ObjectOneHead)
    [] target \in {"zero", "no_offset", "no_generation"} -> 0
    [] target = "past" -> 99999

\* One 20-byte line: "OOOOOOOOOO GGGGG n\r\n"
EntryBytes(f, e) ==
  (IF e.target = "no_offset" THEN [i \in 1..10 |-> 120]
   ELSE Decimal(TargetOffset(f, e.target), 10))
    \o <<SP>>
    \o (IF e.target = "no_generation" THEN [i \in 1..5 |-> 120]
        ELSE Decimal(e.generation, 5))
    \o <<SP, IF e.in_use THEN 110 ELSE 102, CR, LF>>

SubsectionBytes(f, sub) ==
  Decimal(sub.first, 1) \o <<SP>> \o Decimal(Len(sub.entries), 1) \o <<LF>>
    \o Concat([i \in 1..Len(sub.entries) |-> EntryBytes(f, sub.entries[i])])

XrefBytes(f) ==
  XREF_KEYWORD \o <<LF>>
    \o Concat([j \in 1..Len(f.subsections) |-> SubsectionBytes(f, f.subsections[j])])

\* The offset the layout writes after `startxref`: where the xref section
\* starts, an offset past the end of the file, where the trailer keyword
\* starts, or where the letters `xref` of the startxref keyword start (an
\* xref keyword with no counts of a subsection after it).
XrefOffset(f) ==
  CASE f.xref_at = "past" -> TargetOffset(f, "past")
    [] f.xref_at = "xref" ->
         Len(HeaderBytes(f)) + (IF f.body THEN Len(ObjectBytes(f)) ELSE 0)
    [] f.xref_at = "trailer" ->
         Len(HeaderBytes(f)) + Len(ObjectBytes(f)) + Len(XrefBytes(f))
    [] f.xref_at = "startxref" ->
         Len(HeaderBytes(f)) + Len(ObjectBytes(f)) + Len(XrefBytes(f))
           + Len(TrailerBytes(f)) + 5

FileBytes(f) ==
  HeaderBytes(f)
    \o (IF f.body THEN ObjectBytes(f) \o XrefBytes(f) \o TrailerBytes(f) ELSE <<>>)
    \o (IF f.startxref
        THEN STARTXREF_KEYWORD \o <<LF>> \o Decimal(XrefOffset(f), 1) \o <<LF>>
        ELSE <<>>)
    \o f.eof

\* The envelope written at an offset of the layout: Some(<<reference, inner
\* object>>), or None where no `N G obj` starts.
EnvelopeAt(f, offset) ==
  IF ~f.body THEN None
  ELSE IF offset = TargetOffset(f, "obj1")
    THEN Some(<<IndirectRef(1, 0),
                IF f.one = "Indirect" THEN IndirectObject(IndirectRef(2, 0))
                ELSE IntegerObject(42)>>)
  ELSE IF offset = TargetOffset(f, "obj2")
    THEN Some(<<IndirectRef(2, 0), IndirectObject(IndirectRef(1, 0))>>)
  ELSE None

EntryKinds ==
  {[target |-> "obj1", generation |-> 0, in_use |-> TRUE],
   [target |-> "obj2", generation |-> 0, in_use |-> TRUE],
   [target |-> "body1", generation |-> 0, in_use |-> TRUE],
   [target |-> "past", generation |-> 0, in_use |-> TRUE],
   [target |-> "obj1", generation |-> 1, in_use |-> TRUE],
   [target |-> "zero", generation |-> 65535, in_use |-> FALSE]}

EntryLists == UNION {[1..n -> EntryKinds] : n \in 1..MaxEntries}

InUse(target) == [target |-> target, generation |-> 0, in_use |-> TRUE]
FreeEntry == [target |-> "zero", generation |-> 65535, in_use |-> FALSE]

\* "%PDF-" and a prefix that is not the header
HeaderPrefixes == {PDF_HEADER, <<37, 80, 68, 88, 45>>}
\* "%%EOF\n", "%%EOF", "%%EOF\r\n" and no marker
EofForms ==
  {EOF_MARKER, <<37, 37, 69, 79, 70>>, <<37, 37, 69, 79, 70, CR, LF>>, <<>>}
EolForms == {<<LF>>, <<CR>>, <<CR, LF>>, <<>>}

BaseFile ==
  [prefix |-> PDF_HEADER, version |-> <<49, 46, 54>>, eol |-> <<LF>>,
   body |-> TRUE, one |-> "Integer",
   subsections |-> <<[first |-> 0,
                      entries |-> <<FreeEntry, InUse("obj1"), InUse("obj2")>>]>>,
   trailer |-> "Dictionary", xref_at |-> "xref", startxref |-> TRUE,
   eof |-> EOF_MARKER]

Files ==
  \* one subsection, every list of entries
  {[BaseFile EXCEPT !.subsections = <<[first |-> first, entries |-> entries]>>] :
     first \in {0, 1}, entries \in EntryLists}
  \* a second subsection after the first
  \cup {[BaseFile EXCEPT !.subsections =
           <<[first |-> 0, entries |-> <<FreeEntry, InUse("obj1")>>],
             [first |-> first, entries |-> <<InUse("obj2")>>]>>] :
          first \in {2, 4}}
  \* the header line, with and without the rest of the file
  \cup {[BaseFile EXCEPT !.prefix = prefix, !.eol = eol, !.body = body,
                         !.startxref = body, !.eof = IF body THEN EOF_MARKER ELSE <<>>] :
          prefix \in HeaderPrefixes, eol \in EolForms, body \in BOOLEAN}
  \* the end of the file
  \cup {[BaseFile EXCEPT !.eof = eof, !.startxref = startxref, !.body = body] :
          eof \in EofForms, startxref \in BOOLEAN, body \in BOOLEAN}
  \* the object after the trailer keyword, and where startxref points
  \cup {[BaseFile EXCEPT !.trailer = variant, !.xref_at = xref_at] :
          variant \in {"Dictionary", "Integer", "Array"},
          xref_at \in {"xref", "past", "trailer", "startxref"}}
  \* object 1 a reference to object 2, which is a reference to object 1
  \cup {[BaseFile EXCEPT !.one = "Indirect", !.subsections =
           <<[first |-> 0, entries |-> <<FreeEntry, InUse(one), InUse(two)>>]>>] :
          one \in {"obj1", "obj2"}, two \in {"obj2", "past"}}
  \* an entry whose offset or generation is not a number, first or last
  \* of its subsection
  \cup {[BaseFile EXCEPT !.subsections =
           <<[first |-> 0,
              entries |-> IF last THEN <<FreeEntry, InUse("obj1"), InUse(field)>>
                          ELSE <<InUse(field), InUse("obj1"), InUse("obj2")>>]>>] :
          field \in {"no_offset", "no_generation"}, last \in BOOLEAN}

\* The references the reader is asked about.
References == {IndirectRef(n, g) : n \in 0..(MaxEntries + 2), g \in {0, 1}}
                \cup {IndirectRef(0, 65535)}

\* The objects resolve is called on.
Arguments == {IndirectObject(r) : r \in References} \cup {IntegerObject(7), NullObject}

(***************************************************************************)
(* The reader as a state machine: from_raw, then any sequence of calls.    *)
(* call records the last call: the method, its argument, what it           *)
(* returned, the xref_table the reader held when the call was made and     *)
(* whether the call reached the object parser.                             *)
(***************************************************************************)
VARIABLES file, raw, xref_table, call, input, token, st

vars == <<file, raw, xref_table, call, input, token, st>>

Call(op, arg, res, before, parsed) ==
  [op |-> op, arg |-> arg, res |-> res, before |-> before, parsed |-> parsed]

\* No call of parse_token has been made.
NoToken == [arg |-> <<>>, res |-> Err(ErrEOF), called |-> FALSE]

\* PdfFile::from_raw
Init ==
  /\ file \in Files
  /\ raw = FileBytes(file)
  /\ xref_table = None
  /\ call = Call("from_raw", <<>>, Ok(<<>>, <<>>), None, FALSE)
  /\ input = <<>>
  /\ token = NoToken
  /\ st = ParserStart(<<>>)

Version ==
  /\ call' = Call("version", <<>>, version(raw), xref_table, FALSE)
  /\ UNCHANGED <<file, raw, xref_table, input, token, st>>

LastXrefOffset ==
  /\ call' = Call("last_xref_offset", <<>>, last_xref_offset(raw),
                  xref_table, FALSE)
  /\ UNCHANGED <<file, raw, xref_table, input, token, st>>

LoadXrefTable ==
  LET Loaded(loaded) ==
        /\ call' = Call("load_xref_table", <<>>, loaded[1], xref_table, FALSE)
        /\ xref_table' = loaded[2]
        /\ UNCHANGED <<file, raw, input, token, st>>
  IN Loaded(load_xref_table(raw, xref_table))

IndirectObjectOffset ==
  \E reference \in References :
    /\ call' = Call("indirect_object_offset", reference,
                    indirect_object_offset(xref_table, reference),
                    xref_table, FALSE)
    /\ UNCHANGED <<file, raw, xref_table, input, token, st>>

Trailer ==
  LET Read(read) ==
        /\ call' = Call("trailer", <<>>, read[1], xref_table, read[2])
        /\ UNCHANGED <<file, raw, xref_table, input, token, st>>
  IN Read(trailer(raw))

Resolve ==
  \E object \in Arguments :
    LET Resolved(resolved) ==
          /\ call' = Call("resolve", object, resolved[1], xref_table,
                          resolved[2])
          /\ UNCHANGED <<file, raw, xref_table, input, token, st>>
    IN Resolved(resolve(raw, xref_table, object))

Next ==
  \/ Version
  \/ LastXrefOffset
  \/ LoadXrefTable
  \/ IndirectObjectOffset
  \/ Trailer
  \/ Resolve

Spec == Init /\ [][Next]_vars

(***************************************************************************)
(* The tokenizer as a state machine: a caller that holds the remaining     *)
(* input and calls parse_token on it for as long as a token comes back.    *)
(* token records the last call: its argument and what it returned.         *)
(***************************************************************************)
\* SP ( ) \ / # < > [ ] 4 a
TokenBytes == {SP, 40, 41, 92, 47, 35, 60, 62, 91, 93, 52, 97}

BytesUpTo(n) == UNION {[1..k -> TokenBytes] : k \in 0..n}

\* What stands before and after the bytes: nothing; four spaces after, so
\* that five bytes are left for an error's snippet; `stream` and its EOL
\* before, with and without `endstream` and a byte after it.
Contexts ==
  {<<<<>>, <<>>>>,
   <<<<>>, <<SP, SP, SP, SP>>>>,
   <<STREAM_KEYWORD \o <<LF>>, ENDSTREAM_KEYWORD \o <<SP>>>>,
   <<STREAM_KEYWORD \o <<LF>>, <<>>>>}

\* The name `/#hh`, hh the two hexadecimal digits of byte b in upper or
\* lower case, and the byte that follows the name.
HexEscapedName(b, upper, next) ==
  LET digit(n) == IF n < 10 THEN 48 + n ELSE IF upper THEN 55 + n ELSE 87 + n
  IN <<47, 35, digit(b \div 16), digit(b % 16), next>>

\* The literal string `(\ooo)`, ooo the three octal digits of byte b.
OctalEscapedString(b) ==
  <<40, 92, 48 + (b \div 64), 48 + ((b \div 8) % 8), 48 + (b % 8), 41>>

\* The free bytes in each context, the integers of one or two digits with a
\* sign before them and SP or `]` after them, the escape of every byte
\* value, the literal strings with a backslash before an end of line, the
\* streams that end with `endstream` or a space after it, and the
\* hexadecimal strings of up to MaxLen + 1 bytes out of 4 F a SP LF.
Inputs ==
  {c[1] \o bytes \o c[2] : c \in Contexts, bytes \in BytesUpTo(MaxLen)}
    \cup {<<sign>> \o digits \o <<next>> :
            sign \in {43, 45}, next \in {SP, 93},
            digits \in UNION {[1..k -> {48, 50, 52}] : k \in 1..2}}
    \cup {HexEscapedName(b, upper, next) :
            b \in 0..U8_MAX, upper \in BOOLEAN,
            next \in DELIMETER_CHARACTERS \cup WHITESPACE_CHARACTERS}
    \cup {OctalEscapedString(b) : b \in 0..U8_MAX}
    \cup {<<40>> \o before \o <<92>> \o eol \o after \o <<41>> :
            before \in {<<>>, <<97>>}, after \in {<<>>, <<98>>},
            eol \in {<<LF>>, <<CR>>, <<CR, LF>>}}
    \cup {STREAM_KEYWORD \o eol \o body \o ENDSTREAM_KEYWORD \o after :
            eol \in {<<LF>>, <<CR, LF>>, <<CR>>, <<SP>>},
            body \in {<<>>, <<97>>, ENDSTREAM_KEYWORD}, after \in {<<>>, <<SP>>}}
    \cup {<<60>> \o content \o <<62>> :
            content \in UNION {[1..k -> {52, 70, 97, SP, LF}] : k \in 0..(MaxLen + 1)}}

InitTokens ==
  /\ input \in Inputs
  /\ token = NoToken
  /\ file = BaseFile
  /\ raw = FileBytes(file)
  /\ xref_table = None
  /\ call = Call("from_raw", <<>>, Ok(<<>>, <<>>), None, FALSE)
  /\ st = ParserStart(<<>>)

\* let (token, rest) = parse_token(input)?; input = rest;
NextToken ==
  /\ ~token.called \/ IsOk(token.res)
  /\ LET Parsed(res) ==
           /\ token' = [arg |-> input, res |-> res, called |-> TRUE]
           /\ input' = IF IsOk(res) THEN res.rest ELSE input
     IN Parsed(parse_token(input))
  /\ UNCHANGED <<file, raw, xref_table, call, st>>

NextTokens == NextToken

SpecTokens == InitTokens /\ [][NextTokens]_vars

(***************************************************************************)
(* The slice scanner as a state machine: a buffer over the bytes `a` and   *)
(* `b`, and any sequence of searches in it.  input is the buffer; call     *)
(* records the last search, its needle and what it returned.               *)
(***************************************************************************)
InitSlices ==
  /\ input \in UNION {[1..k -> {97, 98}] : k \in 0..MaxLen}
  /\ call = Call("from_raw", <<>>, Ok(<<>>, <<>>), None, FALSE)
  /\ token = NoToken
  /\ file = BaseFile
  /\ raw = FileBytes(file)
  /\ xref_table = None
  /\ st = ParserStart(<<>>)

\* last_position_of_sequence(&input, &seq)
FindLast ==
  \E seq \in UNION {[1..k -> {97, 98}] : k \in 0..MaxLen} :
    /\ call' = Call("last_position_of_sequence", seq,
                    last_position_of_sequence(input, seq), None, FALSE)
    /\ UNCHANGED <<file, raw, xref_table, input, token, st>>

SpecSlices == InitSlices /\ [][FindLast]_vars

(***************************************************************************)
(* The object parser as a state machine: parse_object_until_keyword with   *)
(* the terminator `endobj`, one turn of the loop of parse per step.  file  *)
(* is the layout of the parser's input: its tokens, the whitespace or      *)
(* comment inserted after each of them, and the bytes after the            *)
(* terminator; raw is the input; st is the parser state.                   *)
(***************************************************************************)
\* The input of a layout: each token, the bytes inserted after it, and a
\* space where the token and the next one would otherwise run together;
\* then the terminator and the bytes after it.
TextBytes(t) ==
  LET words == Append(t.tokens, ENDOBJ_KEYWORD)
      Separator(left, right) ==
        IF left[Len(left)] \in DELIMETER_CHARACTERS
           \/ right[1] \in DELIMETER_CHARACTERS
        THEN <<>> ELSE <<SP>>
  IN Concat([i \in 1..Len(t.tokens) |->
               words[i] \o t.fills[i] \o Separator(words[i], words[i + 1])])
       \o ENDOBJ_KEYWORD \o t.tail

\* The layouts: up to MaxTokens tokens out of
\*   1  2  /a  (b)  [  ]  <<  >>  R  obj  stream<LF>x endstream
\* alone, after the envelope `2 1 obj`, or inside `[ ]` or `<< >>`.  Nothing
\* is inserted and a space (or, for the tokens alone, nothing) follows the
\* terminator; or, outside brackets, a whitespace byte follows every token
\* (the six of them in turn, from HT on or from CR on), or the comment
\* `%c<LF>` follows every token.  And the streams
\*   << /Filter f >> stream<LF>body endstream
\* without the entry, with f the integer 1, one of the names FlateDecode and
\* X, or an array of up to MaxTokens - 1 of these names, over three bodies.
InitParser ==
  LET tokens == {<<49>>, <<50>>, <<47, 97>>, <<40, 98, 41>>, <<91>>, <<93>>,
                 <<60, 60>>, <<62, 62>>, R_KEYWORD, OBJ_KEYWORD,
                 STREAM_KEYWORD \o <<LF, 120, SP>> \o ENDSTREAM_KEYWORD}
      whitespace == <<0, HT, LF, FF, CR, SP>>
      alone == <<<<>>, <<>>>>
      wrappers == {alone, <<<<<<50>>, <<49>>, OBJ_KEYWORD>>, <<>>>>,
                   <<<<<<91>>>>, <<<<93>>>>>>, <<<<<<60, 60>>>>, <<<<62, 62>>>>>>}
      Fills(n) ==
        {[i \in 1..n |-> <<whitespace[((i + first) % 6) + 1]>>] : first \in {0, 3}}
          \cup {[i \in 1..n |-> <<37, 99, LF>>]}
      Wrapped(wrapper, sequence) == wrapper[1] \o sequence \o wrapper[2]
      names == {<<47>> \o FLATE_DECODE, <<47, 88>>}
      filters ==
        {<<>>, <<<<47>> \o FILTER_KEY, <<49>>>>}
          \cup {<<<<47>> \o FILTER_KEY, name>> : name \in names}
          \cup UNION {{<<<<47>> \o FILTER_KEY, <<91>>>> \o array \o <<<<93>>>> :
                         array \in [1..n -> names]} : n \in 0..(MaxTokens - 1)}
      bodies == {<<120, 120, 120, 97>>, <<120, 97>>, <<97, 120>>}
      Plain(sequence, tail) ==
        [tokens |-> sequence, fills |-> [i \in 1..Len(sequence) |-> <<>>],
         tail |-> tail]
  IN /\ \/ \E filter \in filters, body \in bodies :
            file = Plain(<<<<60, 60>>>> \o filter
                           \o <<<<62, 62>>,
                                STREAM_KEYWORD \o <<LF>> \o body \o ENDSTREAM_KEYWORD>>,
                         <<SP>>)
        \/ \E n \in 0..MaxTokens :
             \E sequence \in [1..n -> tokens] :
               \E wrapper \in wrappers :
                 \/ \E tail \in IF wrapper = alone THEN {<<SP>>, <<>>} ELSE {<<SP>>} :
                      file = Plain(Wrapped(wrapper, sequence), tail)
                 \/ /\ wrapper[2] = <<>>
                    /\ \E fills \in Fills(Len(wrapper[1]) + n) :
                         file = [tokens |-> Wrapped(wrapper, sequence), fills |-> fills,
                                 tail |-> <<SP>>]
     /\ raw = TextBytes(file)
     /\ st = ParserStart(raw)
     /\ xref_table = None
     /\ call = Call("from_raw", <<>>, Ok(<<>>, <<>>), None, FALSE)
     /\ input = <<>>
     /\ token = NoToken

\* One turn of `while running { ... }` in parse.
ParseStep ==
  /\ st.running
  /\ st' = ParseIteration(st, ENDOBJ_KEYWORD)
  /\ UNCHANGED <<file, raw, xref_table, call, input, token>>

SpecParser == InitParser /\ [][ParseStep]_vars

(***************************************************************************)
(* The narrowing of a reference as a state machine: the two integer tokens *)
(* of `N G R` or `N G obj`, read as parse_numeric reads them into usize,   *)
(* and then process_indirect.  input holds the texts of N and G and the    *)
(* keyword; call records what process_indirect returned.                   *)
(***************************************************************************)
InitIndirect ==
  LET numerals == {<<48>>,
                   <<49>>,
                   <<50>>,
                   <<54, 53, 53, 51, 53>>,
                   <<54, 53, 53, 51, 54>>,
                   <<52, 50, 57, 52, 57, 54, 55, 50, 57, 53>>,
                   <<52, 50, 57, 52, 57, 54, 55, 50, 57, 54>>,
                   <<52, 50, 57, 52, 57, 54, 55, 50, 57, 55>>,
                   <<56, 53, 56, 57, 57, 51, 52, 53, 57, 51>>,
                   <<57, 57, 57, 57, 57, 57, 57, 57, 57, 57, 57, 57, 57, 57, 57, 57, 57, 57, 57>>,
                   <<49, 56, 52, 52, 54, 55, 52, 52, 48, 55, 51, 55, 48, 57, 53, 53, 49, 54, 49, 53>>,
                   <<49, 56, 52, 52, 54, 55, 52, 52, 48, 55, 51, 55, 48, 57, 53, 53, 49, 54, 49, 54>>}
  IN /\ \E number \in numerals, generation \in numerals,
          keyword \in {R_KEYWORD, OBJ_KEYWORD} :
          input = <<number, generation, keyword>>
     /\ call = Call("from_raw", <<>>, Ok(<<>>, <<>>), None, FALSE)
     /\ token = NoToken
     /\ file = BaseFile
     /\ raw = FileBytes(file)
     /\ xref_table = None
     /\ st = ParserStart(<<>>)

\* Token::Integer(text.parse::<usize>()?) for both texts, pushed as
\* Object::Integer, then the keyword's process_indirect
ProcessIndirect ==
  LET base == U16_MAX + 1
      Limbs(t1, t2, t3, t4) ==
        IF t4 \div base > 0 THEN None
        ELSE Some(<<t1 % base, t2 % base, t3 % base, t4 % base>>)
      Fourth(v, t1, t2, t3) ==
        Limbs(t1, t2, t3, v[4] * 10 + (t3 \div base))
      Third(v, t1, t2) == Fourth(v, t1, t2, v[3] * 10 + (t2 \div base))
      Second(v, t1) == Third(v, t1, v[2] * 10 + (t1 \div base))
      Shifted(v, d) == Second(v, v[1] * 10 + d)
      Next10(value, d) ==
        IF ~value.some THEN None ELSE Shifted(value.val, d)
      Parse(text) ==
        LET value[i \in 0..Len(text)] ==
              IF i = 0 THEN Some(<<0, 0, 0, 0>>)
              ELSE Next10(value[i - 1], DigitValue(text[i]))
        IN IF text = <<>> \/ \E i \in 1..Len(text) : ~IsRadixDigit(text[i], 10)
           THEN None
           ELSE value[Len(text)]
      Indirect(number, generation) ==
        IF ~number.some \/ ~generation.some THEN Err(ErrParseInt)
        ELSE process_indirect_usize(number.val, generation.val)
  IN /\ call' = Call("process_indirect", input,
                     Indirect(Parse(input[1]), Parse(input[2])), None, FALSE)
     /\ UNCHANGED <<file, raw, xref_table, input, token, st>>

SpecIndirect == InitIndirect /\ [][ProcessIndirect]_vars

(***************************************************************************)
(* Properties of the reader, checked under Spec                            *)
(***************************************************************************)

\* C1: with the table loaded and an in-use entry for r at offset o,
\* resolve(Indirect(r)) returns Ok(inner object) only if the envelope
\* written at o has the identity r, and then the object is that envelope's;
\* where the bytes at o hold another envelope, or an object with no `obj`
\* before it, resolve returns a Syntax error and never the object.
ResolveChecksIdentity ==
  (/\ call.op = "resolve"
   /\ call.arg.t = "Indirect"
   /\ call.before.some
   /\ call.arg.ref \in DOMAIN call.before.val
   /\ call.before.val[call.arg.ref].some)
  => LET r == call.arg.ref
         o == call.before.val[r].val
         written == EnvelopeAt(file, o)
     IN /\ IsOk(call.res) =>
             /\ written.some
             /\ written.val[1] = r
             /\ call.res.val = written.val[2]
        /\ (o <= Len(raw) /\ ~(written.some /\ written.val[1] = r)) =>
             /\ IsErr(call.res)
             /\ call.res.err.tag = "Syntax"

\* C1 happens: resolve followed a reference through the loaded table and
\* returned the object.
ResolveReturnedObject ==
  /\ call.op = "resolve"
  /\ call.arg.t = "Indirect"
  /\ call.before.some
  /\ call.parsed
  /\ IsOk(call.res)

\* C4: after load_xref_table succeeded on a file whose xref section is one
\* subsection `first length`, indirect_object_offset of the key of entry i,
\* {first + i, generation}, returns Ok(offset) for an `n` entry and
\* ObjectNotFound of that key for an `f` entry, never NotLoaded.
LoadedEntriesAreLocated ==
  (/\ call.op = "indirect_object_offset"
   /\ call.before.some
   /\ Len(file.subsections) = 1)
  => LET sub == file.subsections[1]
     IN \A i \in 1..Len(sub.entries) :
          call.arg = IndirectRef(sub.first + (i - 1), sub.entries[i].generation)
          => call.res =
               IF sub.entries[i].in_use
               THEN Ok(TargetOffset(file, sub.entries[i].target), <<>>)
               ELSE Err(ErrObjectNotFound(call.arg))

\* C4 happens: the offset of a free entry of the loaded subsection was
\* asked for.
FreeEntryWasLookedUp ==
  /\ call.op = "indirect_object_offset"
  /\ call.before.some
  /\ Len(file.subsections) = 1
  /\ \E i \in 1..Len(file.subsections[1].entries) :
       /\ ~file.subsections[1].entries[i].in_use
       /\ call.arg = IndirectRef(file.subsections[1].first + (i - 1),
                                 file.subsections[1].entries[i].generation)

\* C5: once load_xref_table has succeeded no call changes the xref table,
\* and every later load_xref_table returns Ok(()).
LoadMutatesOnce ==
  [][xref_table.some =>
       /\ xref_table' = xref_table
       /\ (call'.op = "load_xref_table" => call'.res = Ok(<<>>, <<>>))]_vars

\* C5 happens: load_xref_table was called on a reader whose table was
\* already loaded.
LoadedAgain ==
  /\ call.op = "load_xref_table"
  /\ call.before.some

\* C6: on a reader whose table has never been loaded, indirect_object_offset
\* returns NotLoaded for every reference and resolve of an indirect
\* reference returns NotLoaded without calling the object parser; the
\* reader's raw and xref_table are as they were.
UnloadedReaderReportsNotLoaded ==
  ~call.before.some =>
    /\ call.op = "indirect_object_offset" =>
         /\ call.res = Err(ErrNotLoaded("xref_table"))
         /\ xref_table = call.before
         /\ raw = FileBytes(file)
    /\ (call.op = "resolve" /\ call.arg.t = "Indirect") =>
         /\ call.res = Err(ErrNotLoaded("xref_table"))
         /\ ~call.parsed
         /\ xref_table = call.before
         /\ raw = FileBytes(file)

\* C6 happens: resolve was called with an indirect reference before any
\* load.
ResolvedBeforeLoad ==
  /\ call.op = "resolve"
  /\ call.arg.t = "Indirect"
  /\ ~call.before.some

\* C7 as stated: the error of a failed indirect_object_offset is of another
\* variant than the error any reference gets in each of the other two
\* situations (key missing, entry free, table unloaded).
LookupFailuresAreDistinct ==
  (/\ call.op = "indirect_object_offset"
   /\ call.before.some
   /\ IsErr(call.res))
  => /\ call.res.err.tag # indirect_object_offset(None, call.arg).err.tag
     /\ \A r \in References :
          (/\ IsErr(indirect_object_offset(call.before, r))
           /\ (r \in DOMAIN call.before.val) # (call.arg \in DOMAIN call.before.val))
          => indirect_object_offset(call.before, r).err.tag # call.res.err.tag

\* C7, amended: an unloaded table yields NotLoaded; with the table loaded, a
\* missing key and a free entry both yield ObjectNotFound of the reference,
\* one variant that differs from NotLoaded.
NotLoadedIsDistinctFromNotFound ==
  call.op = "indirect_object_offset" =>
    /\ ~call.before.some => call.res = Err(ErrNotLoaded("xref_table"))
    /\ (call.before.some /\ call.arg \notin DOMAIN call.before.val) =>
         call.res = Err(ErrObjectNotFound(call.arg))
    /\ (/\ call.before.some
        /\ call.arg \in DOMAIN call.before.val
        /\ ~call.before.val[call.arg].some) =>
         call.res = Err(ErrObjectNotFound(call.arg))

\* C7 happens: a key that is missing from the loaded table was looked up in
\* a table that also holds a free entry.
MissingKeyWasLookedUp ==
  /\ call.op = "indirect_object_offset"
  /\ call.before.some
  /\ call.arg \notin DOMAIN call.before.val
  /\ \E r \in DOMAIN call.before.val : ~call.before.val[r].some

\* C8 as stated: after load_xref_table succeeded the table has an entry for
\* every line of every subsection of the xref section.
EverySubsectionIsLoaded ==
  xref_table.some =>
    \A j \in 1..Len(file.subsections) :
      \A i \in 1..Len(file.subsections[j].entries) :
        IndirectRef(file.subsections[j].first + (i - 1),
                    file.subsections[j].entries[i].generation)
          \in DOMAIN xref_table.val

\* C9 as stated: last_xref_offset returns the integer after the last
\* `startxref` for a buffer that ends with `%%EOF` or with `%%EOF` LF, and a
\* Syntax error for a buffer that ends with neither.
BothEofFormsAreAccepted ==
  call.op = "last_xref_offset" =>
    /\ (file.startxref /\ file.eof \in {<<37, 37, 69, 79, 70>>, EOF_MARKER}) =>
         call.res = Ok(XrefOffset(file), <<>>)
    /\ file.eof \notin {<<37, 37, 69, 79, 70>>, EOF_MARKER} =>
         /\ IsErr(call.res)
         /\ call.res.err.tag = "Syntax"

\* C10 as stated: for a buffer that starts with `%PDF-`, version returns the
\* bytes between the prefix and the first end-of-line, be it LF, CR or
\* CR LF, and a buffer without the prefix yields a Syntax error.
VersionEndsAtAnyEol ==
  call.op = "version" =>
    /\ (file.prefix = PDF_HEADER /\ file.eol \in {<<LF>>, <<CR>>, <<CR, LF>>}) =>
         call.res = Ok(file.version, <<>>)
    /\ file.prefix # PDF_HEADER =>
         /\ IsErr(call.res)
         /\ call.res.err.tag = "Syntax"

\* C11 as stated: trailer returns Ok only with an Object of variant
\* Dictionary; when the object between the last `trailer` keyword and
\* `startxref` is of another variant, trailer returns an error.
TrailerIsADictionary ==
  call.op = "trailer" =>
    /\ IsOk(call.res) => call.res.val.t = "Dictionary"
    /\ (file.body /\ file.trailer # "Dictionary") => IsErr(call.res)

\* C12 as stated: when the integer after `startxref` is greater than the
\* length of the buffer, load_xref_table returns a Syntax error, without
\* aborting, and the xref table stays unloaded.
OffsetPastEndIsASyntaxError ==
  (/\ call.op = "load_xref_table"
   /\ ~call.before.some
   /\ IsOk(last_xref_offset(raw))
   /\ last_xref_offset(raw).val > Len(raw)) =>
    /\ IsErr(call.res)
    /\ call.res.err.tag = "Syntax"
    /\ ~xref_table.some

\* C29: with the table loaded and an in-use entry for r at the offset of an
\* envelope r whose object is itself a reference, resolve(Indirect(r))
\* returns that reference as it stands, whatever the table holds for it
\* (nothing, an offset past the end of the file, or an object that refers
\* back to r), and leaves the table as it was.
ResolveStopsAtStoredReference ==
  (/\ call.op = "resolve"
   /\ call.arg.t = "Indirect"
   /\ call.before.some
   /\ call.arg.ref \in DOMAIN call.before.val
   /\ call.before.val[call.arg.ref].some)
  => LET Stored(written) ==
           (/\ written.some
            /\ written.val[1] = call.arg.ref
            /\ written.val[2].t = "Indirect") =>
             /\ call.res = Ok(written.val[2], <<>>)
             /\ xref_table = call.before
     IN Stored(EnvelopeAt(file, call.before.val[call.arg.ref].val))

\* C29 witness: in a file where object 1 is `2 0 R` and object 2 is `1 0 R`,
\* resolve of the reference 1 0 returned the reference 2 0.
ResolvedInsideCycle ==
  /\ call.op = "resolve"
  /\ file.one = "Indirect"
  /\ file.subsections[1].entries[3].target = "obj2"
  /\ call.arg = IndirectObject(IndirectRef(1, 0))
  /\ call.res = Ok(IndirectObject(IndirectRef(2, 0)), <<>>)

\* C28: a call of load_xref_table that returns an error leaves the table
\* unloaded, as it was before the call: indirect_object_offset still gives
\* NotLoaded for every reference, and the next call of load_xref_table
\* reads the file again, to the same error.
FailedLoadLeavesTableUnloaded ==
  [][(call'.op = "load_xref_table" /\ IsErr(call'.res)) =>
       /\ xref_table = None
       /\ xref_table' = None
       /\ \A reference \in References :
            indirect_object_offset(xref_table', reference)
              = Err(ErrNotLoaded("xref_table"))
       /\ load_xref_table(raw', xref_table') = <<call'.res, None>>]_vars

\* C28 witness: the load of a file whose third entry has no offset, after
\* two entries that were read, returned a ParseInt error and the table is
\* still unloaded.
LoadFailedAtLaterEntry ==
  /\ call.op = "load_xref_table"
  /\ call.res = Err(ErrParseInt)
  /\ Len(file.subsections[1].entries) = 3
  /\ file.subsections[1].entries[3].target = "no_offset"
  /\ xref_table = None

(***************************************************************************)
(* Properties of the tokenizer, checked under SpecTokens                   *)
(***************************************************************************)

\* C2: whenever parse_token returns Ok((token, rest)), rest is a suffix of
\* its input and shorter than it, whatever the token's shape.
TokenAdvances ==
  (token.called /\ IsOk(token.res)) =>
    /\ Len(token.res.rest) < Len(token.arg)
    /\ token.res.rest = Drop(token.arg, Len(token.arg) - Len(token.res.rest))

\* C2 happens: parse_token returned a stream token, the shape that consumes
\* a keyword, an EOL, a body and a second keyword.
StreamTokenWasRead ==
  /\ token.called
  /\ IsOk(token.res)
  /\ token.res.val.type = "Stream"
  /\ token.res.rest # <<>>

\* C3 as stated: for every input parse_token returns Ok or an Err value; no
\* input makes it abort on a slice out of range.
ParseTokenNeverAborts ==
  token.called => ~IsPanic(token.res)

\* C15 as stated: a numeric token without `.` that is a sign followed by
\* digits is an Integer token carrying the signed value: negative after
\* `-`, the value of the digits after `+`.
SignedIntegersAreRead ==
  token.called =>
    LET Signed(run) ==
          (/\ run.some
           /\ run.val >= 2
           /\ token.arg[1] \in {43, 45}
           /\ \A i \in 2..run.val : IsDigit(token.arg[i])) =>
            LET magnitude == RadixValue(SubSeq(token.arg, 2, run.val), 10)
            IN token.res =
                 Ok(IntegerToken(IF token.arg[1] = 45 THEN 0 - magnitude
                                 ELSE magnitude),
                    Drop(token.arg, run.val))
    IN Signed(RunLength(token.arg, NumericChars))

LineContinuationGivesNoByte ==
  token.called =>
    \A before \in {<<>>, <<97>>}, after \in {<<>>, <<98>>},
       eol \in {<<LF>>, <<CR>>, <<CR, LF>>} :
      token.arg = <<40>> \o before \o <<92>> \o eol \o after \o <<41>> =>
        token.res = Ok(LiteralStringToken(before \o after), <<>>)

\* C26 as stated: `<...>` whose content is hexadecimal digits with whitespace
\* bytes anywhere among them is the token HexadecimalString of the bytes the
\* digits give in pairs, whitespace left out, a last single digit being the
\* high nibble of a byte whose low nibble is 0.
HexadecimalStringSkipsWhitespace ==
  LET IsDigitByte(c) == c \in {52, 70, 97}
      Nibble(c) == IF c <= 57 THEN c - 48 ELSE IF c <= 70 THEN c - 55 ELSE c - 87
      Low(digits, i) == IF 2 * i <= Len(digits) THEN Nibble(digits[2 * i]) ELSE 0
      Paired(digits) ==
        [i \in 1..((Len(digits) + 1) \div 2) |->
           16 * Nibble(digits[2 * i - 1]) + Low(digits, i)]
      Content(arg) == SubSeq(arg, 2, Len(arg) - 1)
  IN (/\ token.called
      /\ Len(token.arg) >= 2
      /\ token.arg[1] = 60
      /\ token.arg[Len(token.arg)] = 62
      /\ \A i \in 2..(Len(token.arg) - 1) : token.arg[i] \in {52, 70, 97, SP, LF}) =>
       token.res =
         Ok(HexadecimalStringToken(Paired(SelectSeq(Content(token.arg), IsDigitByte))),
            <<>>)

\* C27 as stated: after the `stream` keyword one EOL, LF or CR LF, is taken,
\* a CR before another byte or any other byte being a Syntax error; the
\* token is the Stream of the bytes from there up to the first `endstream`,
\* wherever it lies, with the bytes after that `endstream` left over; and
\* when no `endstream` follows an error value is returned.
StreamBodyEndsAtFirstEndstream ==
  LET Body(data) ==
        LET found == {i \in 0..(Len(data) - Len(ENDSTREAM_KEYWORD)) :
                        SubSeq(data, i + 1, i + Len(ENDSTREAM_KEYWORD))
                          = ENDSTREAM_KEYWORD}
            first == CHOOSE i \in found : \A j \in found : i <= j
        IN IF found = {} THEN IsErr(token.res)
           ELSE token.res =
                  Ok(StreamToken(SubSeq(data, 1, first)),
                     SubSeq(data, first + Len(ENDSTREAM_KEYWORD) + 1, Len(data)))
      AfterKeyword(bytes) ==
        IF bytes = <<>> \/ bytes = <<CR>> THEN IsErr(token.res)
        ELSE IF bytes[1] = LF THEN Body(SubSeq(bytes, 2, Len(bytes)))
        ELSE IF bytes[1] = CR /\ bytes[2] = LF THEN Body(SubSeq(bytes, 3, Len(bytes)))
        ELSE IsErr(token.res) /\ token.res.err.tag = "Syntax"
  IN (/\ token.called
      /\ Len(token.arg) >= Len(STREAM_KEYWORD)
      /\ SubSeq(token.arg, 1, Len(STREAM_KEYWORD)) = STREAM_KEYWORD) =>
       AfterKeyword(SubSeq(token.arg, Len(STREAM_KEYWORD) + 1, Len(token.arg)))

(***************************************************************************)
(* Properties of the slice scanner, checked under SpecSlices               *)
(***************************************************************************)

\* C13 as stated: with a needle longer than the buffer (an empty buffer
\* included) last_position_of_sequence returns None; the bound
\* buf.len() - needle.len() neither underflows nor aborts.
LongNeedleIsNotFound ==
  (call.op = "last_position_of_sequence" /\ Len(call.arg) > Len(input)) =>
    call.res = Ok(None, <<>>)

\* C14 as stated: for a non-empty needle no longer than the buffer,
\* last_position_of_sequence returns Some(i) for the greatest i with
\* buf[i .. i + needle.len()] = needle, the needle at the very end of the
\* buffer included, and None exactly when the needle does not occur.
LastOccurrenceIsFound ==
  (/\ call.op = "last_position_of_sequence"
   /\ call.arg # <<>>
   /\ Len(call.arg) <= Len(input)) =>
    LET occurrences == {i \in 0..(Len(input) - Len(call.arg)) :
                          Slice(input, i, i + Len(call.arg)) = call.arg}
    IN call.res =
         Ok(IF occurrences = {} THEN None
            ELSE Some(CHOOSE i \in occurrences : \A j \in occurrences : i >= j),
            <<>>)

(***************************************************************************)
(* Properties of the object parser, checked under SpecParser               *)
(***************************************************************************)
\* C16 as stated: when the terminator keyword is the last bytes of the
\* buffer, the call returns the object that the same input followed by a
\* space gives, and an empty remainder.
TerminatorAtTheEndIsRead ==
  LET Same(spaced, bare) == IsOk(spaced) => bare = Ok(spaced.val, <<>>)
  IN (~st.running /\ file.tail = <<>>) =>
       Same(parse_object_until_keyword(TextBytes([file EXCEPT !.tail = <<SP>>]),
                                       ENDOBJ_KEYWORD),
            ParseOutcome(st))

TerminatorNeedsExactlyOneObject ==
  [][LET AtTerminator(t) == IsOk(t) /\ t.val = KeywordToken(ENDOBJ_KEYWORD)
         Outcome(r) ==
           IF Len(st.stack) = 1 /\ st.stack[1].entry = "Obj" THEN IsOk(r)
           ELSE IsErr(r) /\ r.err.tag = "Syntax"
     IN (st.running /\ AtTerminator(parse_token(st.raw))) =>
          Outcome(ParseOutcome(st'))]_vars

\* C20 as stated: a turn of the loop that reads a Stream token while the top
\* of the stack is not Obj(Dictionary) (another object, a marker, or no
\* entry at all) ends the call with a Syntax error, so that no Stream is
\* built on anything but a Dictionary.
StreamNeedsADictionary ==
  [][LET AtStream(t) == IsOk(t) /\ t.val.type = "Stream"
         OnDictionary(stack) ==
           /\ stack # <<>>
           /\ stack[Len(stack)].entry = "Obj"
           /\ stack[Len(stack)].obj.t = "Dictionary"
     IN (st.running /\ AtStream(parse_token(st.raw)) /\ ~OnDictionary(st.stack)) =>
          /\ st'.failure.some
          /\ IsErr(st'.failure.val)
          /\ st'.failure.val.err.tag = "Syntax"]_vars

\* C21: a turn of the loop that reads `R` or `obj` takes the two topmost
\* entries when both are Obj(Integer), the top as the generation and the one
\* below as the number: `R` puts Obj(Indirect) in their place, `obj` puts
\* nothing and records the reference as the envelope identity.  With fewer
\* than two entries, or one that is not an Integer, the call ends with a
\* Syntax error.
IndirectKeywordsTakeTwoIntegers ==
  [][LET depth == Len(st.stack)
         TwoIntegers ==
           /\ depth >= 2
           /\ \A i \in {depth - 1, depth} :
                st.stack[i].entry = "Obj" /\ st.stack[i].obj.t = "Integer"
         Reference ==
           IndirectRef(st.stack[depth - 1].obj.int, st.stack[depth].obj.int)
         SyntaxError ==
           /\ st'.failure.some
           /\ IsErr(st'.failure.val)
           /\ st'.failure.val.err.tag = "Syntax"
         After(t) ==
           /\ (IsOk(t) /\ t.val = KeywordToken(R_KEYWORD)) =>
                IF TwoIntegers
                THEN /\ st'.running
                     /\ st'.stack = Append(Take(st.stack, depth - 2),
                                           Obj(IndirectObject(Reference)))
                     /\ st'.indirect = st.indirect
                ELSE SyntaxError
           /\ (IsOk(t) /\ t.val = KeywordToken(OBJ_KEYWORD)) =>
                IF TwoIntegers
                THEN /\ st'.running
                     /\ st'.stack = Take(st.stack, depth - 2)
                     /\ st'.indirect = Some(Reference)
                ELSE SyntaxError
     IN st.running => After(parse_token(st.raw))]_vars

\* C21 witness: `2 1 obj 1 2 R endobj` was parsed to the reference 1 2 in the
\* envelope of object 2 1.
EnvelopeAndReferenceWereRead ==
  /\ ~st.running
  /\ ParseOutcome(st) =
       Ok(<<Some(IndirectRef(2, 1)), IndirectObject(IndirectRef(1, 2))>>, <<SP>>)

\* C22: a turn of the loop that reads `>>` takes the entries above the most
\* recent BeginDictionary in pairs.  When their number is even, every key is
\* Obj(Name) and every value an Obj, the marker and the entries give way to
\* one Obj(Dictionary) whose keys are the names, each with the value of its
\* (last) pair; otherwise, or with no BeginDictionary on the stack, the call
\* ends with a Syntax error.
EndDictionaryPairsNamesWithValues ==
  [][LET depth == Len(st.stack)
         marks == {i \in 1..depth : st.stack[i] = BeginDictionary}
         Last(marked) == CHOOSE i \in marked : \A j \in marked : i >= j
         SyntaxError ==
           /\ st'.failure.some
           /\ IsErr(st'.failure.val)
           /\ st'.failure.val.err.tag = "Syntax"
         Paired(entries) ==
           /\ Len(entries) % 2 = 0
           /\ \A i \in 1..Len(entries) :
                /\ entries[i].entry = "Obj"
                /\ i % 2 = 1 => entries[i].obj.t = "Name"
         Dictionary(entries) ==
           LET pairs == 1..(Len(entries) \div 2)
               Key(i) == entries[2 * i - 1].obj.bytes
           IN [k \in {Key(i) : i \in pairs} |->
                 entries[2 * Last({i \in pairs : Key(i) = k})].obj]
         Collected(start, entries) ==
           IF Paired(entries)
           THEN /\ st'.running
                /\ st'.stack = Append(Take(st.stack, start - 1),
                                      Obj(DictionaryObject(Dictionary(entries))))
           ELSE SyntaxError
         After(t) ==
           (IsOk(t) /\ t.val = EndDictionaryToken) =>
             IF marks = {} THEN SyntaxError
             ELSE Collected(Last(marks), SubSeq(st.stack, Last(marks) + 1, depth))
     IN st.running => After(parse_token(st.raw))]_vars

\* C22 witness: `<< /a 2 >> endobj` was parsed to the dictionary that maps
\* the name a to Integer(2).
DictionaryWasParsed ==
  /\ ~st.running
  /\ IsOk(ParseOutcome(st))
  /\ file.tokens = <<<<60, 60>>, <<47, 97>>, <<50>>, <<62, 62>>>>
  /\ ParseOutcome(st).val[2] =
       DictionaryObject([k \in {<<97>>} |-> IntegerObject(2)])

\* C23: a turn of the loop that reads `]` replaces the most recent
\* BeginArray and the entries above it, when all of them are Obj, by one
\* Obj(Array) of their objects in stack order; an entry that is a marker,
\* or no BeginArray on the stack, ends the call with a Syntax error.
EndArrayCollectsInOrder ==
  [][LET depth == Len(st.stack)
         marks == {i \in 1..depth : st.stack[i] = BeginArray}
         Last(marked) == CHOOSE i \in marked : \A j \in marked : i >= j
         SyntaxError ==
           /\ st'.failure.some
           /\ IsErr(st'.failure.val)
           /\ st'.failure.val.err.tag = "Syntax"
         Collected(start) ==
           IF \A i \in (start + 1)..depth : st.stack[i].entry = "Obj"
           THEN /\ st'.running
                /\ Len(st'.stack) = start
                /\ Take(st'.stack, start - 1) = Take(st.stack, start - 1)
                /\ st'.stack[start].entry = "Obj"
                /\ st'.stack[start].obj.t = "Array"
                /\ Len(st'.stack[start].obj.items) = depth - start
                /\ \A i \in 1..(depth - start) :
                     st'.stack[start].obj.items[i] = st.stack[start + i].obj
           ELSE SyntaxError
         After(t) ==
           (IsOk(t) /\ t.val = EndArrayToken) =>
             IF marks = {} THEN SyntaxError ELSE Collected(Last(marks))
     IN st.running => After(parse_token(st.raw))]_vars

\* C23 witness: `[ 1 [ ] ] endobj` was parsed to the array of Integer(1) and
\* the empty array, in that order.
NestedArrayWasParsed ==
  /\ ~st.running
  /\ IsOk(ParseOutcome(st))
  /\ ParseOutcome(st).val[2] =
       ArrayObject(<<IntegerObject(1), ArrayObject(<<>>)>>)

NarrowingWrapsWithoutRangeCheck ==
  call.op = "process_indirect" =>
    LET base == U16_MAX + 1
        Mod16(text) ==
          LET m[i \in 0..Len(text)] ==
                IF i = 0 THEN 0
                ELSE (m[i - 1] * 10 + DigitValue(text[i])) % base
          IN m[Len(text)]
        Low(t1) == t1 % base
        High(m2, t1) == (m2 * 10 + (t1 \div base)) % base
        Pair(m, t1) == <<Low(t1), High(m[2], t1)>>
        Shifted(m, d) == Pair(m, m[1] * 10 + d)
        Mod32(text) ==
          LET m[i \in 0..Len(text)] ==
                IF i = 0 THEN <<0, 0>>
                ELSE Shifted(m[i - 1], DigitValue(text[i]))
          IN m[Len(text)]
        N == call.arg[1]
        G == call.arg[2]
    IN /\ (Len(N) <= 19 /\ Len(G) <= 19) =>
            call.res = Ok(IndirectRef(Mod32(N), Mod16(G)), <<>>)
       /\ (/\ N \in {<<49>>, <<52, 50, 57, 52, 57, 54, 55, 50, 57, 55>>}
           /\ G \in {<<48>>, <<54, 53, 53, 51, 54>>}) =>
            call.res = Ok(IndirectRef(<<1, 0>>, 0), <<>>)

\* C30 witness: `4294967297 65536 R` has been narrowed to the reference of
\* `1 0 R`.
OutOfRangeReferenceWasNarrowed ==
  /\ call.op = "process_indirect"
  /\ call.arg = <<<<52, 50, 57, 52, 57, 54, 55, 50, 57, 55>>, <<54, 53, 53, 51, 54>>, R_KEYWORD>>
  /\ call.res = Ok(IndirectRef(<<1, 0>>, 0), <<>>)

=============================================================================
